---- MODULE Spec2Model ----
(***************************************************************************)
(* Iterative tool-orchestration engine of find-house:                      *)
(*   - MCPToolManager (JSON-RPC client of the tool gateway),               *)
(*   - UniversalTravelAnalyzer._call_llm_with_retry (reasoning engine),    *)
(*   - _parse_tool_call_decision (decision parser),                        *)
(*   - the three orchestration loops: universal single-shot, universal     *)
(*     chat and rental.                                                    *)
(* Texts are sequences of lines, a line is a sequence of tokens; a token   *)
(* is an atomic piece of text (a label, a marker, a brace, a word).        *)
(***************************************************************************)
EXTENDS Integers, Sequences, FiniteSets, TLC

VARIABLES
    mode,                 \* which entry point runs: "single", "chat", "rental", "parse", "none"
    pc,                   \* position of the run inside the entry point
    session,              \* MCPToolManager.session: "none", "open", "closed"
    request_id,           \* MCPToolManager.request_id
    sent,                 \* outbound JSON-RPC requests in send order: [id, method, name]
    available_tools,      \* MCPToolManager.available_tools (set of tool names)
    iteration,            \* loop variable of the orchestration loop
    tool_calls,           \* analysis_results["tool_calls"]
    collected_data,       \* analysis_results["collected_data"] / rental analysis data
    final_response,       \* final_response / final_analysis / chat response kind
    message_type,         \* chat result message_type ("none" outside chat)
    current_model_index,  \* UniversalTravelAnalyzer.current_model_index
    attempt,              \* loop variable of _call_llm_with_retry
    llm_status,           \* "idle", "calling", "ok", "raised"
    last_attempt,         \* the latest attempt of the current _call_llm_with_retry call
    llm_calls,            \* requests for a text issued to the reasoning engine so far
    decision_text,        \* text returned by the reasoning engine for this step
    tool_info,            \* result of _parse_tool_call_decision for this step
    consultations,        \* number of decision requests issued in this run
    only_call_tool,       \* every decision so far was a well-formed CALL_TOOL
    last_decision,        \* the branch the latest decision took
    last_tool,            \* how the last tools/call request ended
    entered,              \* __aenter__ returned: initialize and tools/list are done
    deviations,           \* environment deviations used so far
    conversations,        \* ConversationManager.conversations: id -> messages
    uuids,                \* how many ids uuid.uuid4() has produced
    op_result,            \* what the latest conversation operation returned
    turn,                 \* the chat turns in progress: position and local variables
    served                \* the chat turns that have returned, in order

vars == <<mode, pc, session, request_id, sent, available_tools, iteration,
          tool_calls, collected_data, final_response, message_type,
          current_model_index, attempt, llm_status, last_attempt, llm_calls,
          decision_text, tool_info, consultations, only_call_tool, last_decision, last_tool,
          entered, deviations,
          conversations, uuids, op_result, turn, served>>

(***************************************************************************)
(* Bounds of the model.                                                    *)
(***************************************************************************)
\* answers of the environment that a run survives and that differ from the
\* plain ones (catalog loaded, CALL_TOOL maps_geo with JSON arguments, tool
\* result without error) a run may see
MaxDeviations == 1
\* the last loop round in which such an answer may occur; later rounds see
\* the plain answers and the answers that end the run
MaxDeviantRound == 3
\* tokens in the value of a 参数 line of a parser input
MaxValLen == 3
\* messages of a conversation the store operations start from
MaxMessages == 9
\* chat turns begun in one behaviour of the chat specification
MaxTurns == 3

(***************************************************************************)
(* Program constants.                                                      *)
(***************************************************************************)
max_iterations_single == 15
max_iterations_chat == 10
max_iterations_rental == 10
max_retries == 3
retry_delay == 1
\* self.models of UniversalTravelAnalyzer, by position
models == <<"gemini-2.5-flash", "gemini-2.0-flash">>

(***************************************************************************)
(* Tokens of the decision-text grammar: the line labels 工具名称, 参数,    *)
(* 原因 (each followed by the token ":") and the decision markers.         *)
(***************************************************************************)
LabelToolName == "gongju_mingcheng"
LabelArguments == "canshu"
LabelReason == "yuanyin"
CALL_TOOL == "CALL_TOOL"
GENERATE_FINAL_RESPONSE == "GENERATE_FINAL_RESPONSE"
GENERATE_RESPONSE == "GENERATE_RESPONSE"
GENERATE_ANALYSIS == "GENERATE_ANALYSIS"
ASK_USER == "ASK_USER"
NEED_MORE_INFO == "NEED_MORE_INFO"

(***************************************************************************)
(* Text helpers (Python str methods on token sequences).                   *)
(***************************************************************************)
RECURSIVE lstrip(_)
lstrip(s) == IF s # <<>> /\ Head(s) = " " THEN lstrip(Tail(s)) ELSE s

RECURSIVE rstrip(_)
rstrip(s) == IF s # <<>> /\ s[Len(s)] = " " THEN rstrip(SubSeq(s, 1, Len(s) - 1)) ELSE s

strip(s) == rstrip(lstrip(s))

startswith(s, p) == Len(s) >= Len(p) /\ SubSeq(s, 1, Len(p)) = p

endswith(s, p) == Len(s) >= Len(p) /\ SubSeq(s, Len(s) - Len(p) + 1, Len(s)) = p

\* line.split(':', 1)[1] for a line that contains a colon
split_colon_1(s) ==
    LET i == CHOOSE k \in 1..Len(s) : s[k] = ":" /\ \A j \in 1..(k - 1) : s[j] # ":"
    IN SubSeq(s, i + 1, Len(s))

\* marker in text: the marker occurs in some line
contains(text, marker) == \E i \in 1..Len(text) : \E j \in 1..Len(text[i]) : text[i][j] = marker

\* substring test on a tool name
name_contains(name, part) == \E i \in 1..Len(name) : name[i] = part

(***************************************************************************)
(* json.loads on a brace-delimited value: objects with no member or with   *)
(* the one member "kv" (the text "k": "v"), blanks allowed inside.         *)
(***************************************************************************)
RECURSIVE no_blanks(_)
no_blanks(s) == IF s = <<>> THEN <<>>
                ELSE IF Head(s) = " " THEN no_blanks(Tail(s))
                ELSE <<Head(s)>> \o no_blanks(Tail(s))

json_valid(s) == no_blanks(s) \in {<<"{", "}">>, <<"{", "kv", "}">>}

json_loads(s) == IF no_blanks(s) = <<"{", "}">>
                 THEN [type |-> "dict", items |-> {}]
                 ELSE [type |-> "dict", items |-> {<<"k", <<"v">>>>}]

NoToolInfo == [tool_name |-> <<"None">>, arguments |-> [type |-> "none", items |-> {}], reason |-> <<>>, none |-> TRUE]

\* variant: a value that is not a JSON object is kept as the raw text
parse_arguments_raw(param_str) ==
    IF startswith(param_str, <<"{">>) /\ endswith(param_str, <<"}">>) /\ json_valid(param_str)
    THEN json_loads(param_str)
    ELSE [type |-> "str", items |-> {<<"raw", param_str>>}]

\* the value a 参数 line gives to arguments
parse_arguments(param_str) ==
    IF startswith(param_str, <<"{">>) /\ endswith(param_str, <<"}">>) /\ json_valid(param_str)
    THEN json_loads(param_str)
    ELSE [type |-> "dict", items |-> {<<"query", param_str>>}]

\* the loop over the lines: st = [tool_name, has_name, arguments, reason]
RECURSIVE parse_lines(_, _)
parse_lines(lines, st) ==
    IF lines = <<>> THEN st
    ELSE LET line == strip(Head(lines))
             st2 == IF startswith(line, <<LabelToolName, ":">>)
                    THEN [st EXCEPT !.tool_name = strip(split_colon_1(line)), !.has_name = TRUE]
                    ELSE IF startswith(line, <<LabelArguments, ":">>)
                    THEN [st EXCEPT !.arguments = parse_arguments(strip(split_colon_1(line)))]
                    ELSE IF startswith(line, <<LabelReason, ":">>)
                    THEN [st EXCEPT !.reason = strip(split_colon_1(line))]
                    ELSE st
         IN parse_lines(Tail(lines), st2)

\* variant: the tool name is returned without the test on it
_parse_tool_call_decision_any_name(text) ==
    LET st == parse_lines(text, [tool_name |-> <<>>, has_name |-> FALSE,
                                 arguments |-> [type |-> "dict", items |-> {}],
                                 reason |-> <<>>])
    IN [tool_name |-> st.tool_name, arguments |-> st.arguments,
        reason |-> st.reason, none |-> FALSE]

_parse_tool_call_decision(text) ==
    LET st == parse_lines(text, [tool_name |-> <<>>, has_name |-> FALSE,
                                 arguments |-> [type |-> "dict", items |-> {}],
                                 reason |-> <<>>])
    IN IF st.has_name /\ st.tool_name # <<>>
       THEN [tool_name |-> st.tool_name, arguments |-> st.arguments,
             reason |-> st.reason, none |-> FALSE]
       ELSE NoToolInfo

(***************************************************************************)
(* The environment: what the reasoning engine and the gateway may answer.  *)
(***************************************************************************)
maps_geo == <<"maps_", "geo">>
maps_weather == <<"maps_", "weather">>
ToolNames == {maps_geo, maps_weather}

ValidArgs == <<"{", "kv", "}">>

CallToolText(name, args) ==
    << <<CALL_TOOL>>,
       <<LabelToolName, ":", " ">> \o name,
       <<LabelArguments, ":", " ">> \o args,
       <<LabelReason, ":", " ", "w">> >>

\* CALL_TOOL without a tool-name line, and with an empty tool name
NamelessText == << <<CALL_TOOL>>, <<LabelArguments, ":", " ">> \o ValidArgs, <<LabelReason, ":", " ", "w">> >>
EmptyNameText == CallToolText(<<>>, ValidArgs)

MarkerText(marker) == << <<marker>>, <<LabelReason, ":", " ", "w">> >>
UnparseableText == << <<"w">> >>

DefaultText == CallToolText(maps_geo, ValidArgs)

\* decisions that end the run or repeat the default call
PlainTexts ==
    {DefaultText, UnparseableText}
    \cup {MarkerText(m) : m \in {GENERATE_FINAL_RESPONSE, GENERATE_RESPONSE,
                                 GENERATE_ANALYSIS, ASK_USER, NEED_MORE_INFO}}

\* decisions that the run survives and that differ from the default call
DeviantTexts ==
    {CallToolText(maps_weather, ValidArgs), CallToolText(maps_geo, <<"w">>),
     NamelessText, EmptyNameText}

DecisionTexts == PlainTexts \cup DeviantTexts

\* tool results: a response body without / with an "error" key, a response
\* body whose id is not the id of the request, and the sentinel call_tool
\* builds for a non-200 status.  id tells which id the body carries
\* ("request": the id of the request it answers, "none": not a response body)
ResultOk == [kind |-> "result", has_error |-> FALSE, id |-> "request"]
ResultRpcError == [kind |-> "rpc_error", has_error |-> TRUE, id |-> "request"]
ResultWrongId == [kind |-> "result", has_error |-> FALSE, id |-> "other"]
ResultSentinel == [kind |-> "sentinel", has_error |-> TRUE, id |-> "none"]
NoResult == [kind |-> "absent", has_error |-> FALSE, id |-> "none"]

ToolOutcomes == {"ok", "rpc_error", "wrong_id", "http_error", "exception"}

NoResponse == "none"

NoAttempt == [index |-> 0, backend |-> 0, outcome |-> "none", wait |-> 0]

UniversalCategories == {"coordinates", "routes", "nearby_pois", "search_results", "other_data"}
RentalCategories == {"work_locations", "routes", "poi_data", "search_results"}
Categories == UniversalCategories \cup RentalCategories

(***************************************************************************)
(* ConversationManager.  A conversation id is a pair: <<"uuid", n>> for the *)
(* n-th value of uuid.uuid4(), <<"client", n>> for an id a caller made up.  *)
(* A content is [text, len]: len characters of the text; a line of the      *)
(* context is [label, text, len, tail].                                     *)
(***************************************************************************)
context_window == 8
content_cap == 500

NoId == <<"none", 0>>
EmptyStore == <<>>

uuid4(n) == <<"uuid", n + 1>>

\* create_conversation: a fresh id with no messages; gives the store, the
\* uuid count and the id
create_conversation(store, n) ==
    [conversations |-> (uuid4(n) :> <<>>) @@ store, uuids |-> n + 1, id |-> uuid4(n)]

\* variant: the message is put in front of the conversation
add_message_in_front(store, n, id, role, content) ==
    LET target == IF id \in DOMAIN store
                  THEN [conversations |-> store, uuids |-> n, id |-> id]
                  ELSE create_conversation(store, n)
    IN [conversations |-> [target.conversations EXCEPT ![target.id] =
                               <<[role |-> role, content |-> content]>> \o @],
        uuids |-> target.uuids, id |-> target.id]

\* add_message: an unknown id is replaced by the id of a new conversation,
\* the message goes to the end of the conversation, the id used is returned
add_message(store, n, id, role, content) ==
    LET target == IF id \in DOMAIN store
                  THEN [conversations |-> store, uuids |-> n, id |-> id]
                  ELSE create_conversation(store, n)
    IN [conversations |-> [target.conversations EXCEPT ![target.id] =
                               Append(@, [role |-> role, content |-> content])],
        uuids |-> target.uuids, id |-> target.id]

\* msg['content'][:500] + "..." if longer than 500, else the content
cut_content(content) ==
    IF content.len > content_cap
    THEN [text |-> content.text, len |-> content_cap, tail |-> "..."]
    ELSE [text |-> content.text, len |-> content.len, tail |-> ""]

context_line(msg) ==
    LET c == cut_content(msg.content)
    IN [label |-> IF msg.role = "user" THEN "yonghu" ELSE "zhushou",
        text |-> c.text, len |-> c.len, tail |-> c.tail]

\* variant: the slice keeps the first messages, messages[:8]
last_messages_first(messages, k) ==
    IF Len(messages) <= k THEN messages ELSE SubSeq(messages, 1, k)

\* messages[-8:]
last_messages(messages, k) ==
    IF Len(messages) <= k THEN messages
    ELSE SubSeq(messages, Len(messages) - k + 1, Len(messages))

\* get_conversation_context: the lines of the context, <<>> for the empty text
get_conversation_context(store, id) ==
    IF id \notin DOMAIN store THEN <<>>
    ELSE LET recent == last_messages(store[id], context_window)
         IN [i \in 1..Len(recent) |-> context_line(recent[i])]

NoMessage == [role |-> "none", content |-> [text |-> "", len |-> 0]]
NoOpResult == [op |-> "none", id |-> NoId, message |-> NoMessage, returned |-> NoId, context |-> <<>>]
NoTurns == <<>>

NoChat ==
    /\ conversations = EmptyStore
    /\ uuids = 0
    /\ op_result = NoOpResult
    /\ turn = NoTurns
    /\ served = <<>>

max_iterations(m) ==
    IF m = "single" THEN max_iterations_single
    ELSE IF m = "chat" THEN max_iterations_chat
    ELSE max_iterations_rental

(***************************************************************************)
(* Initial state: an analyzer and a service process before any request.    *)
(***************************************************************************)
Init ==
    /\ mode = "none"
    /\ pc = "idle"
    /\ session = "none"
    /\ request_id = 0
    /\ sent = <<>>
    /\ available_tools = {}
    /\ iteration = 0
    /\ tool_calls = <<>>
    /\ collected_data = [c \in Categories |-> <<>>]
    /\ final_response = NoResponse
    /\ message_type = "none"
    /\ current_model_index = 0
    /\ attempt = 0
    /\ llm_status = "idle"
    /\ last_attempt = NoAttempt
    /\ llm_calls = 0
    /\ decision_text = <<>>
    /\ tool_info = NoToolInfo
    /\ consultations = 0
    /\ only_call_tool = TRUE
    /\ last_decision = "none"
    /\ last_tool = "none"
    /\ entered = FALSE
    /\ deviations = 0
    /\ NoChat

gateway_vars == <<session, request_id, sent, available_tools>>
state_vars == <<iteration, tool_calls, collected_data, final_response, message_type>>
llm_vars == <<current_model_index, attempt, llm_status, last_attempt, llm_calls>>
step_vars == <<decision_text, tool_info>>
ghost_vars == <<consultations, only_call_tool, last_decision, last_tool, entered, deviations>>
chat_vars == <<conversations, uuids, op_result, turn, served>>

\* the environment may still give an answer counted by deviations
MayDeviate == deviations < MaxDeviations /\ iteration <= MaxDeviantRound

(***************************************************************************)
(* MCPToolManager.                                                         *)
(***************************************************************************)
\* variant: the counter is read but not advanced
_next_id_stuck(rid) == rid

_next_id(rid) == rid + 1

\* one outbound request: payload id from _next_id, then session.post
Post(method, name) ==
    /\ request_id' = _next_id(request_id)
    /\ sent' = Append(sent, [id |-> _next_id(request_id), method |-> method, name |-> name])

\* variant: the exception is swallowed and the entry point returns as usual
Propagate_swallowed ==
    /\ pc' = "done"
    /\ UNCHANGED <<final_response, message_type>>

\* an exception leaves the entry point: analyze_request and
\* analyze_rental_locations let it through, _analyze_request_for_chat
\* turns it into an error reply
Propagate ==
    IF mode = "chat"
    THEN /\ pc' = "done"
         /\ final_response' = "error_text"
         /\ message_type' = "error"
    ELSE /\ pc' = "raised"
         /\ UNCHANGED <<final_response, message_type>>

\* analyze_request / process_chat_message up to the intent analysis call
StartUniversal ==
    /\ pc = "idle"
    /\ \E m \in {"single", "chat"} : mode' = m
    /\ pc' = "intent"
    /\ llm_status' = "calling"
    /\ attempt' = 0
    /\ last_attempt' = NoAttempt
    /\ llm_calls' = llm_calls + 1
    /\ UNCHANGED <<gateway_vars, state_vars, current_model_index, step_vars, ghost_vars>>
    /\ UNCHANGED chat_vars

\* analyze_query_intent returned (its own handler absorbs a failed call);
\* __aenter__ creates the transport and sends initialize
IntentDone ==
    /\ pc = "intent"
    /\ llm_status \in {"ok", "raised"}
    /\ llm_status' = "idle"
    /\ attempt' = 0
    /\ last_attempt' = NoAttempt
    /\ session' = "open"
    /\ Post("initialize", <<>>)
    /\ pc' = "initialize"
    /\ UNCHANGED <<mode, available_tools, state_vars, current_model_index, llm_calls, step_vars, ghost_vars>>
    /\ UNCHANGED chat_vars

\* analyze_rental_locations: __aenter__ creates the transport and sends initialize
StartRental ==
    /\ pc = "idle"
    /\ mode' = "rental"
    /\ session' = "open"
    /\ Post("initialize", <<>>)
    /\ pc' = "initialize"
    /\ UNCHANGED <<available_tools, state_vars, llm_vars, step_vars, ghost_vars>>
    /\ UNCHANGED chat_vars

\* initialize answered with status 200: __aenter__ goes on to tools/list
InitializeOk ==
    /\ pc = "initialize"
    /\ Post("tools/list", <<>>)
    /\ pc' = "list"
    /\ UNCHANGED <<mode, session, available_tools, state_vars, llm_vars, step_vars, ghost_vars>>
    /\ UNCHANGED chat_vars

\* initialize answered with another status, or the transport raised:
\* __aenter__ raises, so __aexit__ does not run
InitializeFails ==
    /\ pc = "initialize"
    /\ Propagate
    /\ UNCHANGED <<mode, gateway_vars, iteration, tool_calls, collected_data, llm_vars, step_vars, ghost_vars>>
    /\ UNCHANGED chat_vars

\* after __aenter__: the rental run asks for a plan, the universal runs enter the loop
AfterEnter == IF mode = "rental" THEN "plan" ELSE "loop"

\* tools/list answered: status 200 with a tool list fills the catalog, a
\* body without result.tools or another status leaves it empty.  __aenter__
\* returns; the rental run then asks the reasoning engine for its plan
LoadTools ==
    /\ pc = "list"
    /\ \E answer \in {"tools", "malformed", "non200"} :
         /\ answer # "tools" => MayDeviate
         /\ deviations' = IF answer # "tools" THEN deviations + 1 ELSE deviations
         /\ available_tools' = IF answer = "tools" THEN ToolNames ELSE available_tools
    /\ pc' = AfterEnter
    /\ entered' = TRUE
    /\ llm_calls' = IF mode = "rental" THEN llm_calls + 1 ELSE llm_calls
    /\ UNCHANGED <<mode, session, request_id, sent, state_vars, current_model_index,
                   attempt, llm_status, last_attempt, step_vars,
                   consultations, only_call_tool, last_decision, last_tool>>
    /\ UNCHANGED chat_vars

\* the transport raised during tools/list: __aenter__ raises
LoadToolsRaises ==
    /\ pc = "list"
    /\ Propagate
    /\ UNCHANGED <<mode, gateway_vars, iteration, tool_calls, collected_data, llm_vars, step_vars, ghost_vars>>
    /\ UNCHANGED chat_vars

(***************************************************************************)
(* UniversalTravelAnalyzer._call_llm_with_retry, one action per attempt.   *)
(***************************************************************************)
IsDeviation(m, t) == t \in DeviantTexts \/ (m = "rental" /\ t = MarkerText(NEED_MORE_INFO))

\* variant: the switch is refused although a later backend exists
_switch_to_next_model_never(idx) == idx

\* variant: after the last backend the switch goes back to the first
_switch_to_next_model_wraps(idx) == IF idx < Len(models) - 1 THEN idx + 1 ELSE 0

\* the index after _switch_to_next_model (unchanged when it returns False)
_switch_to_next_model(idx) == IF idx < Len(models) - 1 THEN idx + 1 ELSE idx

RECURSIVE pow2(_)
pow2(k) == IF k = 0 THEN 1 ELSE 2 * pow2(k - 1)

\* variant: the same delay before every retry
wait_time_constant(k) == retry_delay

wait_time(k) == retry_delay * pow2(k)

\* variant: one attempt more than max_retries
AfterFailedAttempt_one_more ==
    /\ attempt' = attempt + 1
    /\ llm_status' = IF attempt + 1 < max_retries + 1 THEN "calling" ELSE "raised"
    /\ UNCHANGED llm_calls

\* the state after a failed attempt: the next loop index, or the raise
\* after the last one
AfterFailedAttempt ==
    /\ attempt' = attempt + 1
    /\ llm_status' = IF attempt + 1 < max_retries THEN "calling" ELSE "raised"
    /\ UNCHANGED llm_calls

\* generate_content returned a text
LLMAttemptOk ==
    /\ mode \in {"single", "chat"}
    /\ llm_status = "calling"
    /\ \E t \in (IF pc = "decide" THEN DecisionTexts ELSE {<<>>}) :
         /\ IsDeviation(mode, t) => MayDeviate
         /\ decision_text' = t
         /\ deviations' = IF IsDeviation(mode, t) THEN deviations + 1 ELSE deviations
    /\ llm_status' = "ok"
    /\ last_attempt' = [index |-> attempt, backend |-> current_model_index, outcome |-> "ok", wait |-> 0]
    /\ UNCHANGED <<mode, pc, gateway_vars, state_vars, current_model_index, attempt,
                   llm_calls, tool_info, consultations, only_call_tool, last_decision, last_tool, entered>>
    /\ UNCHANGED chat_vars

\* generate_content raised an error whose message contains 429 or quota
LLMAttemptQuota ==
    /\ mode \in {"single", "chat"}
    /\ llm_status = "calling"
    /\ LET switched == _switch_to_next_model(current_model_index) # current_model_index
           waits == ~switched /\ attempt < max_retries - 1
       IN /\ current_model_index' =
                 IF switched THEN _switch_to_next_model(current_model_index)
                 ELSE IF waits THEN 0
                 ELSE current_model_index
          /\ last_attempt' = [index |-> attempt, backend |-> current_model_index, outcome |-> "quota",
                             wait |-> IF waits THEN wait_time(attempt) ELSE 0]
    /\ AfterFailedAttempt
    /\ UNCHANGED <<mode, pc, gateway_vars, state_vars, step_vars, ghost_vars>>
    /\ UNCHANGED chat_vars

\* variant: any error switches to the next backend
LLMAttemptOther_switches ==
    /\ mode \in {"single", "chat"}
    /\ llm_status = "calling"
    /\ last_attempt' = [index |-> attempt, backend |-> current_model_index, outcome |-> "other",
                       wait |-> IF attempt < max_retries - 1 THEN wait_time(attempt) ELSE 0]
    /\ current_model_index' = _switch_to_next_model(current_model_index)
    /\ AfterFailedAttempt
    /\ UNCHANGED <<mode, pc, gateway_vars, state_vars, step_vars, ghost_vars>>
    /\ UNCHANGED chat_vars

\* generate_content raised any other error
LLMAttemptOther ==
    /\ mode \in {"single", "chat"}
    /\ llm_status = "calling"
    /\ last_attempt' = [index |-> attempt, backend |-> current_model_index, outcome |-> "other",
                       wait |-> IF attempt < max_retries - 1 THEN wait_time(attempt) ELSE 0]
    /\ AfterFailedAttempt
    /\ UNCHANGED <<mode, pc, gateway_vars, state_vars, current_model_index, step_vars, ghost_vars>>
    /\ UNCHANGED chat_vars

(***************************************************************************)
(* The orchestration loops: _execute_intelligent_analysis (single),        *)
(* _execute_chat_analysis (chat), _execute_analysis_with_llm_guidance      *)
(* (rental).                                                               *)
(***************************************************************************)
StartLLM ==
    /\ llm_status' = "calling"
    /\ attempt' = 0
    /\ last_attempt' = NoAttempt
    /\ llm_calls' = llm_calls + 1

ResetLLM ==
    /\ llm_status' = "idle"
    /\ attempt' = 0
    /\ last_attempt' = NoAttempt
    /\ UNCHANGED llm_calls

\* variant: the chat loop has no ASK_USER branch
classify_without_ask_user(m, text) ==
    IF contains(text, CALL_TOOL) THEN "call_tool"
    ELSE IF m = "single" THEN
        (IF contains(text, GENERATE_FINAL_RESPONSE) THEN "generate"
         ELSE IF contains(text, NEED_MORE_INFO) THEN "need_more_info"
         ELSE "unparseable")
    ELSE IF m = "chat" THEN
        (IF contains(text, GENERATE_RESPONSE) THEN "generate"
         ELSE "unparseable")
    ELSE
        (IF contains(text, GENERATE_ANALYSIS) THEN "generate"
         ELSE IF contains(text, NEED_MORE_INFO) THEN "need_more_info"
         ELSE "unparseable")

\* variant: the generation marker is looked for before CALL_TOOL
classify_generate_first(m, text) ==
    IF m = "single" THEN
        (IF contains(text, GENERATE_FINAL_RESPONSE) THEN "generate"
         ELSE IF contains(text, CALL_TOOL) THEN "call_tool"
         ELSE IF contains(text, NEED_MORE_INFO) THEN "need_more_info"
         ELSE "unparseable")
    ELSE IF m = "chat" THEN
        (IF contains(text, GENERATE_RESPONSE) THEN "generate"
         ELSE IF contains(text, CALL_TOOL) THEN "call_tool"
         ELSE IF contains(text, ASK_USER) THEN "ask_user"
         ELSE "unparseable")
    ELSE
        (IF contains(text, GENERATE_ANALYSIS) THEN "generate"
         ELSE IF contains(text, CALL_TOOL) THEN "call_tool"
         ELSE IF contains(text, NEED_MORE_INFO) THEN "need_more_info"
         ELSE "unparseable")

\* variant: one chain for every loop
classify_uniform(m, text) ==
    IF contains(text, CALL_TOOL) THEN "call_tool"
    ELSE IF contains(text, GENERATE_ANALYSIS) \/ contains(text, GENERATE_RESPONSE)
              \/ contains(text, GENERATE_FINAL_RESPONSE) THEN "generate"
    ELSE IF contains(text, ASK_USER) THEN "ask_user"
    ELSE IF contains(text, NEED_MORE_INFO) THEN "need_more_info"
    ELSE "unparseable"

\* the if / elif chain on the decision text, in the order of the code
classify(m, text) ==
    IF contains(text, CALL_TOOL) THEN "call_tool"
    ELSE IF m = "single" THEN
        (IF contains(text, GENERATE_FINAL_RESPONSE) THEN "generate"
         ELSE IF contains(text, NEED_MORE_INFO) THEN "need_more_info"
         ELSE "unparseable")
    ELSE IF m = "chat" THEN
        (IF contains(text, GENERATE_RESPONSE) THEN "generate"
         ELSE IF contains(text, ASK_USER) THEN "ask_user"
         ELSE "unparseable")
    ELSE
        (IF contains(text, GENERATE_ANALYSIS) THEN "generate"
         ELSE IF contains(text, NEED_MORE_INFO) THEN "need_more_info"
         ELSE "unparseable")

\* variant: direction is looked for before geo
_get_data_type_from_tool_direction_first(tool_name) ==
    IF name_contains(tool_name, "direction") THEN "routes"
    ELSE IF name_contains(tool_name, "geo") THEN "coordinates"
    ELSE IF name_contains(tool_name, "around_search") THEN "nearby_pois"
    ELSE IF name_contains(tool_name, "text_search") THEN "search_results"
    ELSE "other_data"

_get_data_type_from_tool(tool_name) ==
    IF name_contains(tool_name, "geo") THEN "coordinates"
    ELSE IF name_contains(tool_name, "direction") THEN "routes"
    ELSE IF name_contains(tool_name, "around_search") THEN "nearby_pois"
    ELSE IF name_contains(tool_name, "text_search") THEN "search_results"
    ELSE "other_data"

\* variant: the test for the error key is inverted
_update_collected_data_inverted(cd, tool_name, result) ==
    IF result.has_error
    THEN [cd EXCEPT ![_get_data_type_from_tool(tool_name)] = Append(@, result)]
    ELSE cd

_update_collected_data(cd, tool_name, result) ==
    IF result.has_error THEN cd
    ELSE [cd EXCEPT ![_get_data_type_from_tool(tool_name)] = Append(@, result)]

\* rental: exact tool names; a geocode result yields coordinates only when
\* it carries result.content
_update_analysis_data(cd, tool_name, result) ==
    IF tool_name = maps_geo
    THEN (IF result.kind = "result" /\ Len(cd["work_locations"]) < 2
          THEN [cd EXCEPT !["work_locations"] = Append(@, result)]
          ELSE cd)
    ELSE IF tool_name \in {<<"maps_", "direction", "_transit_integrated">>,
                           <<"maps_", "direction", "_walking">>}
    THEN [cd EXCEPT !["routes"] = Append(@, result)]
    ELSE IF tool_name = <<"maps_", "around_search">>
    THEN [cd EXCEPT !["poi_data"] = Append(@, result)]
    ELSE IF tool_name = <<"maps_", "text_search">>
    THEN [cd EXCEPT !["search_results"] = Append(@, result)]
    ELSE cd

\* what call_tool gives back for each way the request can end
call_tool(outcome) ==
    IF outcome = "ok" THEN [raised |-> FALSE, result |-> ResultOk]
    ELSE IF outcome = "rpc_error" THEN [raised |-> FALSE, result |-> ResultRpcError]
    ELSE IF outcome = "wrong_id" THEN [raised |-> FALSE, result |-> ResultWrongId]
    ELSE IF outcome = "http_error" THEN [raised |-> FALSE, result |-> ResultSentinel]
    ELSE [raised |-> TRUE, result |-> NoResult]

\* the record the universal loops append
\* variant: every record is marked as a success
universal_record_always_success(it, info, result) ==
    [iteration |-> it, tool_name |-> info.tool_name, arguments |-> info.arguments,
     reason |-> info.reason, result |-> result, success |-> TRUE,
     keys |-> {"iteration", "tool_name", "arguments", "result", "reason", "success"}]

\* variant: the record carries the number of rounds completed before the call
universal_record_from_zero(it, info, result) ==
    [iteration |-> it - 1, tool_name |-> info.tool_name, arguments |-> info.arguments,
     reason |-> info.reason, result |-> result, success |-> ~result.has_error,
     keys |-> {"iteration", "tool_name", "arguments", "result", "reason", "success"}]

universal_record(it, info, result) ==
    [iteration |-> it, tool_name |-> info.tool_name, arguments |-> info.arguments,
     reason |-> info.reason, result |-> result, success |-> ~result.has_error,
     keys |-> {"iteration", "tool_name", "arguments", "result", "reason", "success"}]

\* the records the rental loop appends: with the result, or with the error text
rental_record(it, info, result) ==
    [iteration |-> it, tool_name |-> info.tool_name, arguments |-> info.arguments,
     reason |-> info.reason, result |-> result, success |-> FALSE,
     keys |-> {"tool_name", "arguments", "result", "reason", "iteration"}]

rental_error_record(it, info) ==
    [iteration |-> it, tool_name |-> info.tool_name, arguments |-> info.arguments,
     reason |-> info.reason, result |-> NoResult, success |-> FALSE,
     keys |-> {"tool_name", "arguments", "error", "reason", "iteration"}]

\* how the call history given to the reasoning engine labels a record:
\* _format_tool_calls_summary (universal), _format_tool_calls_history (rental)
reported_failed(m, call) ==
    IF m = "rental" THEN "error" \in call.keys
    ELSE ~("success" \in call.keys /\ call.success)

\* variant: the round counter is not advanced
LoopIterate_uncounted ==
    /\ pc = "loop"
    /\ iteration < max_iterations(mode)
    /\ iteration' = iteration
    /\ consultations' = consultations + 1
    /\ pc' = "decide"
    /\ StartLLM
    /\ UNCHANGED <<mode, gateway_vars, tool_calls, collected_data, final_response,
                   message_type, current_model_index, step_vars, only_call_tool,
                   last_decision, last_tool, entered, deviations>>
    /\ UNCHANGED chat_vars

\* while iteration < max_iterations: iteration += 1, build the prompt and
\* ask the reasoning engine for the next decision
LoopIterate ==
    /\ pc = "loop"
    /\ iteration < max_iterations(mode)
    /\ iteration' = iteration + 1
    /\ consultations' = consultations + 1
    /\ pc' = "decide"
    /\ StartLLM
    /\ UNCHANGED <<mode, gateway_vars, tool_calls, collected_data, final_response,
                   message_type, current_model_index, step_vars, only_call_tool,
                   last_decision, last_tool, entered, deviations>>
    /\ UNCHANGED chat_vars

\* variant: no loop synthesizes a reply after leaving
LeaveLoop_returns ==
    pc' = "exit" /\ ResetLLM

\* variant: every loop synthesizes a reply after leaving
LeaveLoop_synthesizes ==
    pc' = "final" /\ StartLLM

\* leaving the loop: break, or the while condition is false.  The single-shot
\* and rental loops return analysis_results, the chat loop synthesizes a reply
LeaveLoop ==
    IF mode = "chat" THEN pc' = "final" /\ StartLLM
    ELSE pc' = "exit" /\ ResetLLM

LoopExhausted ==
    /\ pc = "loop"
    /\ iteration >= max_iterations(mode)
    /\ LeaveLoop
    /\ UNCHANGED <<mode, gateway_vars, state_vars, current_model_index, step_vars, ghost_vars>>
    /\ UNCHANGED chat_vars

\* rental: self.model.generate_content returned (plan or decision)
RentalModelReturns ==
    /\ mode = "rental"
    /\ \/ /\ pc = "plan"
          /\ pc' = "loop"
          /\ UNCHANGED <<llm_vars, decision_text, deviations>>
       \/ /\ pc = "decide"
          /\ llm_status = "calling"
          /\ \E t \in DecisionTexts :
               /\ IsDeviation(mode, t) => MayDeviate
               /\ decision_text' = t
               /\ deviations' = IF IsDeviation(mode, t) THEN deviations + 1 ELSE deviations
          /\ llm_status' = "ok"
          /\ UNCHANGED <<pc, current_model_index, attempt, last_attempt, llm_calls>>
    /\ UNCHANGED <<mode, gateway_vars, state_vars, tool_info, consultations,
                   only_call_tool, last_decision, last_tool, entered>>
    /\ UNCHANGED chat_vars

\* rental: self.model.generate_content raised; nothing handles it, the
\* async with block is left through __aexit__
RentalModelRaises ==
    /\ mode = "rental"
    /\ \/ pc = "plan"
       \/ pc = "decide" /\ llm_status = "calling"
    /\ session' = "closed"
    /\ pc' = "raised"
    /\ ResetLLM
    /\ only_call_tool' = FALSE
    /\ last_decision' = IF pc = "decide" THEN "raised" ELSE last_decision
    /\ UNCHANGED <<mode, request_id, sent, available_tools, state_vars,
                   current_model_index, step_vars, consultations, last_tool, entered, deviations>>
    /\ UNCHANGED chat_vars

Decided == pc = "decide" /\ llm_status = "ok"

\* the decision is consumed: the branch taken is remembered
Consume(branch) ==
    /\ decision_text' = <<>>
    /\ last_decision' = branch

\* variant: tools/call is sent while a reasoning-engine request is started
DecisionCallTool_concurrent ==
    /\ Decided
    /\ classify(mode, decision_text) = "call_tool"
    /\ ~_parse_tool_call_decision(decision_text).none
    /\ tool_info' = _parse_tool_call_decision(decision_text)
    /\ Post("tools/call", _parse_tool_call_decision(decision_text).tool_name)
    /\ pc' = "tool"
    /\ StartLLM
    /\ Consume("call_tool")
    /\ UNCHANGED <<mode, session, available_tools, state_vars, current_model_index,
                   consultations, only_call_tool, last_tool, entered, deviations>>
    /\ UNCHANGED chat_vars

\* CALL_TOOL with a tool name: send tools/call
DecisionCallTool ==
    /\ Decided
    /\ classify(mode, decision_text) = "call_tool"
    /\ ~_parse_tool_call_decision(decision_text).none
    /\ tool_info' = _parse_tool_call_decision(decision_text)
    /\ Post("tools/call", _parse_tool_call_decision(decision_text).tool_name)
    /\ pc' = "tool"
    /\ ResetLLM
    /\ Consume("call_tool")
    /\ UNCHANGED <<mode, session, available_tools, state_vars, current_model_index,
                   consultations, only_call_tool, last_tool, entered, deviations>>
    /\ UNCHANGED chat_vars

\* CALL_TOOL for which the parser gives None: the branch does nothing
DecisionCallToolSkipped ==
    /\ Decided
    /\ classify(mode, decision_text) = "call_tool"
    /\ _parse_tool_call_decision(decision_text).none
    /\ tool_info' = NoToolInfo
    /\ pc' = "loop"
    /\ ResetLLM
    /\ Consume("call_tool_no_name")
    /\ only_call_tool' = FALSE
    /\ UNCHANGED <<mode, gateway_vars, state_vars, current_model_index,
                   consultations, last_tool, entered, deviations>>
    /\ UNCHANGED chat_vars

\* the generate marker of the loop; single-shot also on NEED_MORE_INFO
DecisionGenerate ==
    /\ Decided
    /\ \/ classify(mode, decision_text) = "generate"
       \/ mode = "single" /\ classify(mode, decision_text) = "need_more_info"
    /\ pc' = "final"
    /\ StartLLM
    /\ Consume(classify(mode, decision_text))
    /\ only_call_tool' = FALSE
    /\ UNCHANGED <<mode, gateway_vars, state_vars, current_model_index, tool_info,
                   consultations, last_tool, entered, deviations>>
    /\ UNCHANGED chat_vars

\* chat: ASK_USER returns the question
DecisionAskUser ==
    /\ Decided
    /\ classify(mode, decision_text) = "ask_user"
    /\ final_response' = "question_text"
    /\ message_type' = "question"
    /\ pc' = "exit"
    /\ ResetLLM
    /\ Consume("ask_user")
    /\ only_call_tool' = FALSE
    /\ UNCHANGED <<mode, gateway_vars, iteration, tool_calls, collected_data,
                   current_model_index, tool_info, consultations, last_tool, entered, deviations>>
    /\ UNCHANGED chat_vars

\* rental: NEED_MORE_INFO is logged and the loop goes on
DecisionNeedMoreInfo ==
    /\ Decided
    /\ mode = "rental"
    /\ classify(mode, decision_text) = "need_more_info"
    /\ pc' = "loop"
    /\ ResetLLM
    /\ Consume("need_more_info")
    /\ only_call_tool' = FALSE
    /\ UNCHANGED <<mode, gateway_vars, state_vars, current_model_index, tool_info,
                   consultations, last_tool, entered, deviations>>
    /\ UNCHANGED chat_vars

\* no marker of this loop in the text: break
DecisionUnparseable ==
    /\ Decided
    /\ classify(mode, decision_text) = "unparseable"
    /\ LeaveLoop
    /\ Consume("unparseable")
    /\ only_call_tool' = FALSE
    /\ UNCHANGED <<mode, gateway_vars, state_vars, current_model_index, tool_info,
                   consultations, last_tool, entered, deviations>>
    /\ UNCHANGED chat_vars

\* universal: _call_llm_with_retry raised inside the loop's try: break
DecisionRaised ==
    /\ pc = "decide"
    /\ mode \in {"single", "chat"}
    /\ llm_status = "raised"
    /\ LeaveLoop
    /\ Consume("raised")
    /\ only_call_tool' = FALSE
    /\ UNCHANGED <<mode, gateway_vars, state_vars, current_model_index, tool_info,
                   consultations, last_tool, entered, deviations>>
    /\ UNCHANGED chat_vars

\* tools/call ended without an exception: the record is appended and the
\* collected data updated
ToolReturns ==
    /\ pc = "tool"
    /\ \E outcome \in ToolOutcomes :
         /\ ~call_tool(outcome).raised
         /\ outcome # "ok" => MayDeviate
         /\ deviations' = IF outcome # "ok" THEN deviations + 1 ELSE deviations
         /\ last_tool' = outcome
         /\ LET result == call_tool(outcome).result
            IN IF mode = "rental"
               THEN /\ tool_calls' = Append(tool_calls, rental_record(iteration, tool_info, result))
                    /\ collected_data' = _update_analysis_data(collected_data, tool_info.tool_name, result)
               ELSE /\ tool_calls' = Append(tool_calls, universal_record(iteration, tool_info, result))
                    /\ collected_data' = _update_collected_data(collected_data, tool_info.tool_name, result)
    /\ pc' = "loop"
    /\ UNCHANGED <<mode, gateway_vars, iteration, final_response, message_type, llm_vars,
                   step_vars, consultations, only_call_tool, last_decision, entered>>
    /\ UNCHANGED chat_vars

\* call_tool raised: the universal loops break out through their handler,
\* the rental loop records the error and goes on
ToolRaises ==
    /\ pc = "tool"
    /\ \E outcome \in ToolOutcomes :
         /\ call_tool(outcome).raised
         /\ MayDeviate
         /\ deviations' = deviations + 1
         /\ last_tool' = outcome
    /\ IF mode = "rental"
       THEN /\ tool_calls' = Append(tool_calls, rental_error_record(iteration, tool_info))
            /\ pc' = "loop"
            /\ UNCHANGED llm_vars
       ELSE /\ LeaveLoop
            /\ UNCHANGED <<tool_calls, current_model_index>>
    /\ UNCHANGED <<mode, gateway_vars, iteration, collected_data, final_response,
                   message_type, step_vars, consultations, only_call_tool, last_decision, entered>>
    /\ UNCHANGED chat_vars

\* variant: no fallback text when _call_llm_with_retry raised
FinalDone_without_fallback ==
    /\ pc = "final"
    /\ mode \in {"single", "chat"}
    /\ llm_status \in {"ok", "raised"}
    /\ final_response' = IF llm_status = "ok" THEN "llm_text" ELSE final_response
    /\ message_type' = IF mode = "chat" THEN "analysis" ELSE message_type
    /\ pc' = "exit"
    /\ ResetLLM
    /\ UNCHANGED <<mode, gateway_vars, iteration, tool_calls, collected_data,
                   current_model_index, step_vars, ghost_vars>>
    /\ UNCHANGED chat_vars

\* variant: the loop goes on after the response is stored
FinalDone_continues ==
    /\ pc = "final"
    /\ mode \in {"single", "chat"}
    /\ llm_status \in {"ok", "raised"}
    /\ final_response' = IF llm_status = "ok" THEN "llm_text" ELSE "fallback_text"
    /\ message_type' = IF mode = "chat" THEN "analysis" ELSE message_type
    /\ pc' = "loop"
    /\ ResetLLM
    /\ UNCHANGED <<mode, gateway_vars, iteration, tool_calls, collected_data,
                   current_model_index, step_vars, ghost_vars>>
    /\ UNCHANGED chat_vars

\* _generate_final_response: the synthesized text, or the static fallback
\* when _call_llm_with_retry raised
FinalDone ==
    /\ pc = "final"
    /\ mode \in {"single", "chat"}
    /\ llm_status \in {"ok", "raised"}
    /\ final_response' = IF llm_status = "ok" THEN "llm_text" ELSE "fallback_text"
    /\ message_type' = IF mode = "chat" THEN "analysis" ELSE message_type
    /\ pc' = "exit"
    /\ ResetLLM
    /\ UNCHANGED <<mode, gateway_vars, iteration, tool_calls, collected_data,
                   current_model_index, step_vars, ghost_vars>>
    /\ UNCHANGED chat_vars

\* rental _generate_final_analysis: the report, the simplified report when
\* the first call raised, the static fallback when both raised
RentalFinal ==
    /\ pc = "final"
    /\ mode = "rental"
    /\ \E text \in {"llm_text", "simplified_text", "fallback_text"} :
         /\ final_response' = text
         /\ llm_calls' = IF text = "llm_text" THEN llm_calls ELSE llm_calls + 1
    /\ pc' = "exit"
    /\ llm_status' = "idle"
    /\ attempt' = 0
    /\ last_attempt' = NoAttempt
    /\ UNCHANGED <<mode, gateway_vars, iteration, tool_calls, collected_data, message_type,
                   current_model_index, step_vars, ghost_vars>>
    /\ UNCHANGED chat_vars

\* __aexit__: the transport is closed and the entry point returns
AExit ==
    /\ pc = "exit"
    /\ session' = IF session = "open" THEN "closed" ELSE session
    /\ pc' = "done"
    /\ UNCHANGED <<mode, request_id, sent, available_tools, state_vars, llm_vars,
                   step_vars, ghost_vars>>
    /\ UNCHANGED chat_vars

Next ==
    \/ StartUniversal
    \/ IntentDone
    \/ StartRental
    \/ InitializeOk
    \/ InitializeFails
    \/ LoadTools
    \/ LoadToolsRaises
    \/ LLMAttemptOk
    \/ LLMAttemptQuota
    \/ LLMAttemptOther
    \/ LoopIterate
    \/ LoopExhausted
    \/ RentalModelReturns
    \/ RentalModelRaises
    \/ DecisionCallTool
    \/ DecisionCallToolSkipped
    \/ DecisionGenerate
    \/ DecisionAskUser
    \/ DecisionNeedMoreInfo
    \/ DecisionUnparseable
    \/ DecisionRaised
    \/ ToolReturns
    \/ ToolRaises
    \/ FinalDone
    \/ RentalFinal
    \/ AExit

Spec == Init /\ [][Next]_vars

\* what _parse_tool_call_decision gives for each decision text
ParsedDecision == [t \in DecisionTexts |-> _parse_tool_call_decision(t)]

\* the CALL_TOOL branch, DecisionCallTool or DecisionCallToolSkipped, with the
\* parser's answer read from ParsedDecision
CallToolBranch ==
    /\ Decided
    /\ classify(mode, decision_text) = "call_tool"
    /\ IF ParsedDecision[decision_text].none
       THEN /\ tool_info' = NoToolInfo
            /\ pc' = "loop"
            /\ Consume("call_tool_no_name")
            /\ only_call_tool' = FALSE
            /\ UNCHANGED gateway_vars
       ELSE /\ tool_info' = ParsedDecision[decision_text]
            /\ Post("tools/call", ParsedDecision[decision_text].tool_name)
            /\ pc' = "tool"
            /\ Consume("call_tool")
            /\ UNCHANGED <<session, available_tools, only_call_tool>>
    /\ ResetLLM
    /\ UNCHANGED <<mode, state_vars, current_model_index,
                   consultations, last_tool, entered, deviations>>
    /\ UNCHANGED chat_vars

\* every step of the code but the CALL_TOOL branch
OtherSteps ==
    \/ StartUniversal
    \/ IntentDone
    \/ StartRental
    \/ InitializeOk
    \/ InitializeFails
    \/ LoadTools
    \/ LoadToolsRaises
    \/ LLMAttemptOk
    \/ LLMAttemptQuota
    \/ LLMAttemptOther
    \/ LoopIterate
    \/ LoopExhausted
    \/ RentalModelReturns
    \/ RentalModelRaises
    \/ DecisionGenerate
    \/ DecisionAskUser
    \/ DecisionNeedMoreInfo
    \/ DecisionUnparseable
    \/ DecisionRaised
    \/ ToolReturns
    \/ ToolRaises
    \/ FinalDone
    \/ RentalFinal
    \/ AExit

\* the runs in which every awaited call returns or raises and the code in
\* between goes on: no step that can be taken is put off for ever
SpecLive == Spec /\ WF_vars(OtherSteps) /\ WF_vars(CallToolBranch)

(***************************************************************************)
(* The decision parser on its own: the inputs are CALL_TOOL texts with an  *)
(* optional tool-name line, an optional arguments line with any value of   *)
(* up to MaxValLen tokens, in both orders, and an optional reason line.    *)
(***************************************************************************)
ValTokens == {"{", "}", "kv", "w", " "}

RECURSIVE SeqsUpTo(_, _)
SeqsUpTo(S, n) ==
    IF n = 0 THEN {<<>>}
    ELSE LET shorter == SeqsUpTo(S, n - 1)
         IN shorter \cup {Append(q, x) : q \in shorter, x \in S}

ParseValues == SeqsUpTo(ValTokens, MaxValLen)

NameLines ==
    {<<LabelToolName, ":", " ">> \o maps_geo,
     <<" ", LabelToolName, ":", " ">> \o maps_weather \o <<" ">>,
     <<LabelToolName, ":">>,
     <<LabelToolName, ":", " ">>}

ArgumentLines == {<<LabelArguments, ":">> \o v : v \in ParseValues}

OptionalLine(L) == {<<>>} \cup {<<l>> : l \in L}

ParseTexts ==
    {<< <<CALL_TOOL>> >> \o n \o a \o r : n \in OptionalLine(NameLines),
                                         a \in OptionalLine(ArgumentLines),
                                         r \in OptionalLine({<<LabelReason, ":", " ", "w">>})}
    \cup
    {<< <<CALL_TOOL>> >> \o a \o n : n \in OptionalLine(NameLines),
                                    a \in OptionalLine(ArgumentLines)}

InitParse ==
    /\ mode = "parse"
    /\ pc = "parse"
    /\ session = "none"
    /\ request_id = 0
    /\ sent = <<>>
    /\ available_tools = {}
    /\ iteration = 0
    /\ tool_calls = <<>>
    /\ collected_data = [c \in Categories |-> <<>>]
    /\ final_response = NoResponse
    /\ message_type = "none"
    /\ current_model_index = 0
    /\ attempt = 0
    /\ llm_status = "idle"
    /\ last_attempt = NoAttempt
    /\ llm_calls = 0
    /\ decision_text \in ParseTexts
    /\ tool_info = NoToolInfo
    /\ consultations = 0
    /\ only_call_tool = TRUE
    /\ last_decision = "none"
    /\ last_tool = "none"
    /\ entered = FALSE
    /\ deviations = 0
    /\ NoChat

\* one call of _parse_tool_call_decision
ParseDecision ==
    /\ pc = "parse"
    /\ tool_info' = _parse_tool_call_decision(decision_text)
    /\ pc' = "parsed"
    /\ UNCHANGED <<mode, gateway_vars, state_vars, llm_vars, decision_text, ghost_vars>>
    /\ UNCHANGED chat_vars

NextParse == ParseDecision

SpecParse == InitParse /\ [][NextParse]_vars

(***************************************************************************)
(* The if / elif chain of a loop on its own: one classification of a       *)
(* decision text of up to MaxMarkerLines lines, each holding one marker or *)
(* a plain word.                                                           *)
(***************************************************************************)
MaxMarkerLines == 2

Loops == {"single", "chat", "rental"}

MarkerWords ==
    {CALL_TOOL, GENERATE_FINAL_RESPONSE, GENERATE_RESPONSE, GENERATE_ANALYSIS,
     ASK_USER, NEED_MORE_INFO, "w"}

ClassifyTexts ==
    UNION {[1..n -> {<<t>> : t \in MarkerWords}] : n \in 0..MaxMarkerLines}

InitClassify ==
    /\ mode \in Loops
    /\ pc = "classify"
    /\ session = "none"
    /\ request_id = 0
    /\ sent = <<>>
    /\ available_tools = {}
    /\ iteration = 0
    /\ tool_calls = <<>>
    /\ collected_data = [c \in Categories |-> <<>>]
    /\ final_response = NoResponse
    /\ message_type = "none"
    /\ current_model_index = 0
    /\ attempt = 0
    /\ llm_status = "ok"
    /\ last_attempt = NoAttempt
    /\ llm_calls = 0
    /\ decision_text \in ClassifyTexts
    /\ tool_info = NoToolInfo
    /\ consultations = 0
    /\ only_call_tool = TRUE
    /\ last_decision = "none"
    /\ last_tool = "none"
    /\ entered = FALSE
    /\ deviations = 0
    /\ NoChat

\* one pass through the if / elif chain of the loop
Classify ==
    /\ pc = "classify"
    /\ last_decision' = classify(mode, decision_text)
    /\ pc' = "classified"
    /\ UNCHANGED <<mode, gateway_vars, state_vars, llm_vars, step_vars,
                   consultations, only_call_tool, last_tool, entered, deviations>>
    /\ UNCHANGED chat_vars

NextClassify == Classify

SpecClassify == InitClassify /\ [][NextClassify]_vars

(***************************************************************************)
(* The record and the data update after one tools/call on their own: the   *)
(* tool name is made of up to MaxNameParts parts.                          *)
(***************************************************************************)
MaxNameParts == 2

NameParts == {"maps_", "geo", "direction", "around_search", "text_search", "weather"}

DataToolNames == UNION {[1..n -> NameParts] : n \in 1..MaxNameParts}

InitData ==
    /\ mode \in Loops
    /\ pc = "update"
    /\ session = "open"
    /\ request_id = 0
    /\ sent = <<>>
    /\ available_tools = {}
    /\ iteration = 1
    /\ tool_calls = <<>>
    /\ collected_data = [c \in Categories |-> <<>>]
    /\ final_response = NoResponse
    /\ message_type = "none"
    /\ current_model_index = 0
    /\ attempt = 0
    /\ llm_status = "idle"
    /\ last_attempt = NoAttempt
    /\ llm_calls = 0
    /\ decision_text = <<>>
    /\ \E n \in DataToolNames :
         tool_info = [tool_name |-> n, arguments |-> [type |-> "dict", items |-> {}],
                      reason |-> <<>>, none |-> FALSE]
    /\ consultations = 0
    /\ only_call_tool = TRUE
    /\ last_decision = "call_tool"
    /\ last_tool = "none"
    /\ entered = TRUE
    /\ deviations = 0
    /\ NoChat

\* call_tool has returned: the record is appended and the data updated
UpdateData ==
    /\ pc = "update"
    /\ \E outcome \in ToolOutcomes :
         /\ ~call_tool(outcome).raised
         /\ last_tool' = outcome
         /\ LET result == call_tool(outcome).result
            IN IF mode = "rental"
               THEN /\ tool_calls' = Append(tool_calls, rental_record(iteration, tool_info, result))
                    /\ collected_data' = _update_analysis_data(collected_data, tool_info.tool_name, result)
               ELSE /\ tool_calls' = Append(tool_calls, universal_record(iteration, tool_info, result))
                    /\ collected_data' = _update_collected_data(collected_data, tool_info.tool_name, result)
    /\ pc' = "updated"
    /\ UNCHANGED <<mode, gateway_vars, iteration, final_response, message_type, llm_vars,
                   step_vars, consultations, only_call_tool, last_decision, entered, deviations>>
    /\ UNCHANGED chat_vars

NextData == UpdateData

SpecDataType == InitData /\ [][NextData]_vars

(***************************************************************************)
(* ConversationManager on its own: one operation on a store that holds no  *)
(* conversation or one conversation of up to MaxMessages messages.         *)
(***************************************************************************)
ShortContent == [text |-> "s", len |-> 3]
CapContent == [text |-> "c", len |-> content_cap]
LongContent == [text |-> "l", len |-> content_cap + 1]

MessageInputs ==
    {[role |-> "user", content |-> ShortContent],
     [role |-> "user", content |-> CapContent],
     [role |-> "assistant", content |-> LongContent]}

StoreInputs ==
    {EmptyStore} \cup {(uuid4(0) :> msgs) : msgs \in SeqsUpTo(MessageInputs, MaxMessages)}

ClientId == <<"client", 1>>

InitStore ==
    /\ mode = "store"
    /\ pc = "store"
    /\ session = "none"
    /\ request_id = 0
    /\ sent = <<>>
    /\ available_tools = {}
    /\ iteration = 0
    /\ tool_calls = <<>>
    /\ collected_data = [c \in Categories |-> <<>>]
    /\ final_response = NoResponse
    /\ message_type = "none"
    /\ current_model_index = 0
    /\ attempt = 0
    /\ llm_status = "idle"
    /\ last_attempt = NoAttempt
    /\ llm_calls = 0
    /\ decision_text = <<>>
    /\ tool_info = NoToolInfo
    /\ consultations = 0
    /\ only_call_tool = TRUE
    /\ last_decision = "none"
    /\ last_tool = "none"
    /\ entered = FALSE
    /\ deviations = 0
    /\ conversations \in StoreInputs
    /\ uuids = Cardinality(DOMAIN conversations)
    /\ op_result = NoOpResult
    /\ turn = NoTurns
    /\ served = <<>>

program_vars == <<mode, gateway_vars, state_vars, llm_vars, step_vars, ghost_vars>>

\* one call of create_conversation
CreateConversation ==
    /\ pc = "store"
    /\ LET r == create_conversation(conversations, uuids)
       IN /\ conversations' = r.conversations
          /\ uuids' = r.uuids
          /\ op_result' = [NoOpResult EXCEPT !.op = "create", !.returned = r.id]
    /\ pc' = "stored"
    /\ UNCHANGED <<program_vars, turn, served>>

\* one call of add_message, with an id of the store or an id it does not hold
AddMessage ==
    /\ pc = "store"
    /\ \E id \in DOMAIN conversations \cup {ClientId}, msg \in MessageInputs :
         LET r == add_message(conversations, uuids, id, msg.role, msg.content)
         IN /\ conversations' = r.conversations
            /\ uuids' = r.uuids
            /\ op_result' = [NoOpResult EXCEPT !.op = "add", !.id = id, !.message = msg,
                                               !.returned = r.id]
    /\ pc' = "stored"
    /\ UNCHANGED <<program_vars, turn, served>>

\* one call of get_conversation_context
GetContext ==
    /\ pc = "store"
    /\ \E id \in DOMAIN conversations \cup {ClientId} :
         op_result' = [NoOpResult EXCEPT !.op = "context", !.id = id,
                         !.context = get_conversation_context(conversations, id)]
    /\ pc' = "stored"
    /\ UNCHANGED <<program_vars, conversations, uuids, turn, served>>

NextStore ==
    \/ CreateConversation
    \/ AddMessage
    \/ GetContext

SpecStore == InitStore /\ [][NextStore]_vars

(***************************************************************************)
(* Chat turns: chat_with_analyzer of the service and process_chat_message. *)
(* A turn runs up to its await (the simple answer or the analysis), is     *)
(* suspended there, and goes on when the reply is there.                   *)
(***************************************************************************)
Procs == {1, 2}

TurnMessage == [text |-> "q", len |-> 3]
ReplyKinds == {"simple_qa", "analysis", "question", "error"}
ReplyContent(kind) == [text |-> kind, len |-> 3]

IdleTurn ==
    [pc |-> "idle", via |-> "none", passed_id |-> NoId, conversation_id |-> NoId,
     message |-> NoMessage.content, existing_context |-> <<>>, context |-> <<>>]

\* load_conversation_state: an id the store does not hold gets an empty session
load_conversation_state(store, id) ==
    IF id \notin DOMAIN store THEN (id :> <<>>) @@ store ELSE store

\* variant: the user message is kept back until the reply is there
chat_until_await_keeps_back(store, n, cid, message) ==
    LET c == IF cid = NoId THEN create_conversation(store, n)
             ELSE [conversations |-> store, uuids |-> n, id |-> cid]
    IN [conversations |-> c.conversations, uuids |-> c.uuids, conversation_id |-> c.id,
        existing_context |-> get_conversation_context(c.conversations, c.id),
        context |-> get_conversation_context(c.conversations, c.id)]

\* process_chat_message up to the await: the id is created when none was
\* passed, the user message is added (the id add_message returns is not
\* used) and the context is read under conversation_id
chat_until_await(store, n, cid, message) ==
    LET c == IF cid = NoId THEN create_conversation(store, n)
             ELSE [conversations |-> store, uuids |-> n, id |-> cid]
        a == add_message(c.conversations, c.uuids, c.id, "user", message)
    IN [conversations |-> a.conversations, uuids |-> a.uuids, conversation_id |-> c.id,
        existing_context |-> get_conversation_context(c.conversations, c.id),
        context |-> get_conversation_context(a.conversations, c.id)]

\* the ids a client can pass: none, one a turn returned, one it made up
PassableIds == {NoId, ClientId} \cup {served[i].conversation_id : i \in 1..Len(served)}

TurnsBegun == Len(served) + Cardinality({p \in Procs : turn[p].pc # "idle"})

InitChat ==
    /\ mode = "chat_turns"
    /\ pc = "chat_turns"
    /\ session = "none"
    /\ request_id = 0
    /\ sent = <<>>
    /\ available_tools = {}
    /\ iteration = 0
    /\ tool_calls = <<>>
    /\ collected_data = [c \in Categories |-> <<>>]
    /\ final_response = NoResponse
    /\ message_type = "none"
    /\ current_model_index = 0
    /\ attempt = 0
    /\ llm_status = "idle"
    /\ last_attempt = NoAttempt
    /\ llm_calls = 0
    /\ decision_text = <<>>
    /\ tool_info = NoToolInfo
    /\ consultations = 0
    /\ only_call_tool = TRUE
    /\ last_decision = "none"
    /\ last_tool = "none"
    /\ entered = FALSE
    /\ deviations = 0
    /\ conversations = EmptyStore
    /\ uuids = 0
    /\ op_result = NoOpResult
    /\ turn = [p \in Procs |-> IdleTurn]
    /\ served = <<>>

BeginTurn(p, via, cid, store) ==
    LET r == chat_until_await(store, uuids, cid, TurnMessage)
    IN /\ conversations' = r.conversations
       /\ uuids' = r.uuids
       /\ turn' = [turn EXCEPT ![p] =
                      [pc |-> "awaiting", via |-> via, passed_id |-> cid,
                       conversation_id |-> r.conversation_id, message |-> TurnMessage,
                       existing_context |-> r.existing_context, context |-> r.context]]

\* chat_with_analyzer: a new analyzer (and so a new, empty store) for the
\* request, load_conversation_state when an id was passed, then
\* process_chat_message up to its await
ServiceChat ==
    /\ TurnsBegun < MaxTurns
    /\ \A q \in Procs : turn[q].pc = "idle"
    /\ \E cid \in PassableIds :
         BeginTurn(1, "service", cid,
                   IF cid # NoId THEN load_conversation_state(EmptyStore, cid) ELSE EmptyStore)
    /\ UNCHANGED <<program_vars, pc, op_result, served>>

\* process_chat_message called on the analyzer at hand, up to its await
DirectChat ==
    /\ TurnsBegun < MaxTurns
    /\ \E p \in Procs, cid \in PassableIds :
         /\ turn[p].pc = "idle"
         /\ \A q \in Procs : turn[q].via # "service"
         /\ BeginTurn(p, "direct", cid, conversations)
    /\ UNCHANGED <<program_vars, pc, op_result, served>>

\* the awaited reply is there: the assistant message is added and
\* chat_result is returned with conversation_id
ChatReplies ==
    /\ \E p \in Procs, kind \in ReplyKinds :
         /\ turn[p].pc = "awaiting"
         /\ LET a == add_message(conversations, uuids, turn[p].conversation_id,
                                 "assistant", ReplyContent(kind))
            IN /\ conversations' = a.conversations
               /\ uuids' = a.uuids
         /\ served' = Append(served, [via |-> turn[p].via, passed_id |-> turn[p].passed_id,
                                      conversation_id |-> turn[p].conversation_id,
                                      message |-> turn[p].message,
                                      response |-> ReplyContent(kind),
                                      message_type |-> kind,
                                      context |-> turn[p].context])
         /\ turn' = [turn EXCEPT ![p] = IdleTurn]
    /\ UNCHANGED <<program_vars, pc, op_result>>

NextChat ==
    \/ ServiceChat
    \/ DirectChat
    \/ ChatReplies

SpecChat == InitChat /\ [][NextChat]_vars

(***************************************************************************)
(* Properties.                                                             *)
(***************************************************************************)
\* a tools/call request has just ended in the given way
ToolEnded(outcome) == pc = "tool" /\ pc' # "tool" /\ last_tool' = outcome

\* the loop records the call as failed and goes on with the next round
RecordedAsFailedAndLoopGoesOn ==
    /\ pc' = "loop"
    /\ tool_calls' # <<>>
    /\ SubSeq(tool_calls', 1, Len(tool_calls)) = tool_calls
    /\ Len(tool_calls') = Len(tool_calls) + 1
    /\ tool_calls'[Len(tool_calls')].iteration = iteration
    /\ reported_failed(mode, tool_calls'[Len(tool_calls')])

\* C1: in the single-shot and rental loops, a run in which every decision was
\* a well-formed CALL_TOOL (and every tool call returned) ends after at most
\* max_iterations decision consultations with a final response set
C1_BoundedTerminationWithResponse ==
    (mode \in {"single", "rental"} /\ pc = "done" /\ only_call_tool /\ last_tool # "exception")
        => (consultations <= max_iterations(mode) /\ final_response # NoResponse)

\* C2: a single-shot run whose gateway session was established ends with a
\* final response set, whatever the decisions and the tool results were
C2_SingleShotAlwaysResponds ==
    (mode = "single" /\ entered /\ pc = "done") => final_response # NoResponse

\* C3: once the gateway session is established no entry point raises
C3_NoRaiseAfterSetup == entered => pc # "raised"

\* C4: a tools/call answered with a non-200 status gives the sentinel, the
\* loop appends a record reported as failed and goes on to the next round
C4_HttpFailureIsolated ==
    [][ToolEnded("http_error") =>
          (~call_tool("http_error").raised /\ RecordedAsFailedAndLoopGoesOn)]_vars

\* C5: in the universal loops a transport exception during tools/call gives
\* the sentinel instead of raising, the call is recorded as failed and the
\* loop goes on
C5_TransportExceptionIsolated ==
    [][(mode \in {"single", "chat"} /\ ToolEnded("exception")) =>
          (~call_tool("exception").raised /\ RecordedAsFailedAndLoopGoesOn)]_vars

\* C6: a universal run whose decision request failed with the reasoning
\* engine exhausted still returns a best-effort response and does not raise
C6_ExhaustionGivesBestEffort ==
    (mode \in {"single", "chat"} /\ last_decision = "raised" /\ pc \in {"done", "raised"})
        => (pc = "done" /\ final_response \in {"llm_text", "fallback_text"})

\* C7: with backends [A, B] and A current, after a quota error from A the
\* next attempt of the same call goes to B and no wait lies between the two
C7_QuotaSwitchesAtOnce ==
    [][(/\ llm_status = "calling"
        /\ last_attempt.outcome = "quota"
        /\ last_attempt.backend = 0
        /\ last_attempt' # last_attempt)
       => (/\ last_attempt.wait = 0
           /\ last_attempt'.backend = 1
           /\ last_attempt'.index = last_attempt.index + 1)]_vars

\* in the first call of the analyzer (A current) the second attempt ran on B
C7_Witness ==
    /\ pc = "intent"
    /\ last_attempt.index = 1
    /\ last_attempt.backend = 1
    /\ last_attempt.outcome = "ok"

\* C8: after a CALL_TOOL decision without a tool name the loop has ended:
\* no further decision request is issued
C8_NamelessCallAborts ==
    last_decision = "call_tool_no_name" => pc # "decide"

\* the value of the last arguments line of a text, as the claim reads it
ArgumentLineIndexes(text) ==
    {i \in 1..Len(text) : startswith(strip(text[i]), <<LabelArguments, ":">>)}

LastArgumentValue(text) ==
    LET i == CHOOSE k \in ArgumentLineIndexes(text) : \A j \in ArgumentLineIndexes(text) : j <= k
    IN strip(split_colon_1(strip(text[i])))

IsJsonObjectText(v) == v # <<>> /\ Head(v) = "{" /\ v[Len(v)] = "}" /\ json_valid(v)

\* C9: whenever the parser yields a tool call its arguments are a mapping:
\* the parsed object for a brace-delimited value that is valid JSON,
\* {"query": raw text} for any other value, {} without an arguments line
C9_PermissiveArguments ==
    (pc = "parsed" /\ ~tool_info.none) =>
        /\ tool_info.arguments.type = "dict"
        /\ ArgumentLineIndexes(decision_text) = {} => tool_info.arguments.items = {}
        /\ ArgumentLineIndexes(decision_text) # {} =>
             LET v == LastArgumentValue(decision_text)
             IN IF IsJsonObjectText(v)
                THEN tool_info.arguments = json_loads(v)
                ELSE tool_info.arguments.items = {<<"query", v>>}

\* a brace-delimited value that is not valid JSON was wrapped
C9_Witness ==
    /\ pc = "parsed"
    /\ ~tool_info.none
    /\ tool_info.arguments = [type |-> "dict", items |-> {<<"query", <<"{", "w", "}">>>>}]

\* C10: the ids of the requests one MCPToolManager sends are strictly
\* increasing in send order, so no id is used twice
C10_IdsStrictlyIncreasing ==
    \A i \in 1..Len(sent) : \A j \in 1..Len(sent) : i < j => sent[i].id < sent[j].id

\* C11: no tool-call record holds as its result a response body whose id is
\* not the id of the request it answers: such a body is rejected
C11_ResponsesMatchedById ==
    \A i \in 1..Len(tool_calls) : tool_calls[i].result.id \in {"request", "none"}

\* C12: when the entry point has returned or raised, the transport session
\* that __aenter__ created has been closed, on every exit path
C12_SessionClosedOnEveryExit ==
    (pc \in {"done", "raised"} /\ session # "none") => session = "closed"

\* the run ended because initialize failed: nothing but initialize was sent
InitializeFailed == pc \in {"done", "raised"} /\ Len(sent) = 1

NoDecisionNoToolCall ==
    /\ consultations = 0
    /\ \A i \in 1..Len(sent) : sent[i].method # "tools/call"

\* C13 as stated: a failed initialize leaves the single-shot and the chat
\* entry point as an exception, and no decision request and no tools/call
\* is issued
C13_InitializeFailurePropagates ==
    (mode \in {"single", "chat"} /\ InitializeFailed) => (pc = "raised" /\ NoDecisionNoToolCall)

\* C13 amended: a failed initialize leaves the single-shot entry point as an
\* exception with no response; the chat turn returns an error reply
\* (message_type error); in both no decision request and no tools/call is
\* issued
C13_InitializeFailureEndsRun ==
    (mode \in {"single", "chat"} /\ InitializeFailed) =>
        /\ mode = "single" => (pc = "raised" /\ final_response = NoResponse)
        /\ mode = "chat" => (pc = "done" /\ message_type = "error" /\ final_response = "error_text")
        /\ NoDecisionNoToolCall

\* a chat turn whose initialize failed has returned its error reply
C13_Witness ==
    /\ mode = "chat"
    /\ InitializeFailed
    /\ message_type = "error"

C15_Scenario ==
    /\ mode = "single"
    /\ pc = "done"
    /\ maps_geo \in available_tools
    /\ iteration = 2
    /\ last_decision = "generate"
    /\ Len(sent) = 3
    /\ sent[3].method = "tools/call"
    /\ sent[3].name = maps_geo
    /\ last_tool = "ok"

C15_RecordDataAndResponse ==
    /\ Len(tool_calls) = 1
    /\ tool_calls[1].tool_name = maps_geo
    /\ Len(collected_data["coordinates"]) = 1
    /\ final_response # NoResponse

\* C15 as stated: the scenario ends with one record for the geocoding tool,
\* one stored coordinate result, a final response, and 2 requests to the
\* reasoning engine in total
C15_ScenarioTwoConsultationsInTotal ==
    C15_Scenario => (C15_RecordDataAndResponse /\ llm_calls = 2)

\* C15 amended: the scenario ends with one record for the geocoding tool,
\* one stored coordinate result, a final response and 2 decision requests;
\* with the intent analysis and the answer synthesis the reasoning engine
\* is asked 4 times in total
C15_ScenarioTwoDecisions ==
    C15_Scenario => (C15_RecordDataAndResponse /\ consultations = 2 /\ llm_calls = 4)

\* the scenario has run and the answer was synthesized by the reasoning engine
C15_Witness ==
    /\ C15_Scenario
    /\ final_response = "llm_text"
    /\ tool_calls[1].success

\* the context holds the lines of an earlier turn: its user message and,
\* right after it, its assistant response
HoldsTurn(context, earlier) ==
    \E k \in 1..Len(context) :
        /\ k < Len(context)
        /\ context[k] = context_line([role |-> "user", content |-> earlier.message])
        /\ context[k + 1] = context_line([role |-> "assistant", content |-> earlier.response])

\* C16: a chat turn of the service that passes the conversation id an
\* earlier turn of the service returned gets a context that holds the
\* earlier turn's messages
C16_LaterTurnSeesEarlierTurn ==
    \A i \in 1..Len(served) : \A j \in 1..Len(served) :
        (/\ i < j
         /\ served[i].via = "service"
         /\ served[j].via = "service"
         /\ served[j].passed_id = served[i].conversation_id)
        => HoldsTurn(served[j].context, served[i])

\* add_message has just been called with an id the store did not hold
AddedToUnknownId ==
    /\ pc = "store"
    /\ op_result'.op = "add"
    /\ op_result'.id \notin DOMAIN conversations

\* C17: add_message with an unknown id creates the session for that
\* id, so that afterwards the store maps the given id to a session whose
\* last message is the new one
C17_UnknownIdIsUpserted ==
    [][AddedToUnknownId =>
          (/\ op_result'.id \in DOMAIN conversations'
           /\ conversations'[op_result'.id] # <<>>
           /\ conversations'[op_result'.id][Len(conversations'[op_result'.id])] = op_result'.message)]_vars

\* what C18 expects of the context of a known conversation; tail is what may
\* follow the first characters of a content longer than the cap
ContextOfLast(messages, context, tail) ==
    LET n == Len(messages)
        k == IF n < context_window THEN n ELSE context_window
    IN /\ Len(context) = k
       /\ \A i \in 1..k :
            LET msg == messages[n - k + i]
            IN /\ context[i].label = (IF msg.role = "user" THEN "yonghu" ELSE "zhushou")
               /\ context[i].text = msg.content.text
               /\ context[i].len = (IF msg.content.len < content_cap THEN msg.content.len ELSE content_cap)
               /\ context[i].tail = (IF msg.content.len > content_cap THEN tail ELSE "")

ContextReturned == pc = "stored" /\ op_result.op = "context"

\* C18 as stated: the context has one role-labelled line for each of the
\* last min(8, n) messages, in order, each content cut to at most its first
\* 500 characters; for an unknown id it is the empty text
C18_ContextIsCutWindow ==
    ContextReturned =>
        IF op_result.id \in DOMAIN conversations
        THEN ContextOfLast(conversations[op_result.id], op_result.context, "")
        ELSE op_result.context = <<>>

\* C18 amended: as stated, but a content longer than 500 characters is cut
\* to its first 500 characters followed by "..."
C18_ContextIsCutWindowWithEllipsis ==
    ContextReturned =>
        IF op_result.id \in DOMAIN conversations
        THEN ContextOfLast(conversations[op_result.id], op_result.context, "...")
        ELSE op_result.context = <<>>

\* the context of a conversation of more than 8 messages, the oldest shown
\* one longer than the cap
C18_Witness ==
    /\ ContextReturned
    /\ op_result.id \in DOMAIN conversations
    /\ Len(conversations[op_result.id]) > context_window
    /\ Len(op_result.context) = context_window
    /\ op_result.context[1].tail = "..."
    /\ conversations[op_result.id][1].content = ShortContent

Synthesized == final_response \in {"llm_text", "fallback_text"}

\* C19: a chat turn whose 10 decision rounds all ended in a tool call (or a
\* skipped one) returns a response synthesized from the collected data,
\* message_type analysis, and does not raise
C19_ChatExhaustionSynthesizes ==
    (/\ mode = "chat"
     /\ iteration = max_iterations_chat
     /\ last_decision \in {"call_tool", "call_tool_no_name"}
     /\ pc \in {"done", "raised"})
    => (pc = "done" /\ Synthesized /\ message_type = "analysis")

\* a chat turn has returned after 10 rounds with 10 tool calls
C19_Witness ==
    /\ mode = "chat"
    /\ pc = "done"
    /\ iteration = max_iterations_chat
    /\ consultations = max_iterations_chat
    /\ Len(tool_calls) = max_iterations_chat
    /\ last_tool = "ok"
    /\ final_response = "llm_text"
    /\ message_type = "analysis"

\* C20 as stated: after a NEED_MORE_INFO or an unparseable decision the loop
\* has stopped in every mode: no final response, no further decision
\* request, no exception
C20_NeedMoreInfoOrUnparseableAborts ==
    last_decision \in {"need_more_info", "unparseable"} =>
        (pc \in {"exit", "done"} /\ final_response = NoResponse)

\* the step that takes the branch of a decision
Takes(branch) == Decided /\ last_decision' = branch

C20_AfterUnparseable ==
    last_decision = "unparseable" =>
        IF mode = "chat"
        THEN /\ pc \in {"final", "exit", "done"}
             /\ pc # "final" => (Synthesized /\ message_type = "analysis")
        ELSE pc \in {"exit", "done"} /\ final_response = NoResponse

C20_AfterNeedMoreInfoSingle ==
    (last_decision = "need_more_info" /\ mode = "single") =>
        /\ pc \in {"final", "exit", "done"}
        /\ pc # "final" => Synthesized

\* C20 amended: an unparseable decision stops every loop at once without an
\* exception; the single-shot and rental runs then return no final response,
\* the chat turn a synthesized one.  NEED_MORE_INFO stops the single-shot
\* loop and forces a synthesized response; the rental loop goes on to its
\* next round with the state unchanged
C20_AbortsPerLoop ==
    /\ [](C20_AfterUnparseable /\ C20_AfterNeedMoreInfoSingle)
    /\ [][(mode = "rental" /\ Takes("need_more_info"))
            => (pc' = "loop" /\ UNCHANGED <<state_vars, gateway_vars, consultations>>)]_vars
    /\ [][Takes("unparseable") => (pc' = IF mode = "chat" THEN "final" ELSE "exit")]_vars

\* a single-shot run has returned the response forced by NEED_MORE_INFO
C20_Witness ==
    /\ mode = "single"
    /\ last_decision = "need_more_info"
    /\ pc = "done"
    /\ final_response = "llm_text"
    /\ Len(tool_calls) > 0

\* initialize, tools/list, a failed tools/call and a later tools/call were sent
C10_Witness ==
    /\ Len(sent) >= 4
    /\ sent[1].method = "initialize"
    /\ sent[2].method = "tools/list"
    /\ sent[Len(sent)].method = "tools/call"
    /\ \E i \in 1..Len(tool_calls) : tool_calls[i].result.has_error

\* the decision at hand names ASK_USER and no marker the code looks for
\* before it in any loop
AskUserDecided ==
    /\ Decided
    /\ decision_text = MarkerText(ASK_USER)

\* C21: in single-shot mode an ASK_USER decision starts the synthesis of the
\* final response, as a GENERATE_FINAL_RESPONSE decision does
C21_AskUserForcesResponse ==
    [][(mode = "single" /\ AskUserDecided /\ pc' # pc) => pc' = "final"]_vars

\* C22: in chat mode an ASK_USER decision ends the turn at once: the
\* question is returned with message_type question, and no decision request,
\* reasoning-engine request, tool call or change of the analysis state
\* follows it
C22_AskUserEndsChatTurn ==
    /\ [][(mode = "chat" /\ AskUserDecided /\ pc' # pc)
            => (/\ pc' = "exit"
                /\ final_response' = "question_text"
                /\ message_type' = "question"
                /\ llm_status' = "idle"
                /\ last_decision' = "ask_user"
                /\ UNCHANGED <<sent, tool_calls, collected_data, consultations, llm_calls>>)]_vars
    /\ [][last_decision = "ask_user"
            => (/\ pc' \in {"exit", "done"}
                /\ UNCHANGED <<sent, tool_calls, collected_data, consultations, llm_calls,
                               final_response, message_type>>)]_vars

\* a chat turn has returned a question after an earlier tool call
C22_Witness ==
    /\ mode = "chat"
    /\ pc = "done"
    /\ last_decision = "ask_user"
    /\ message_type = "question"
    /\ Len(tool_calls) > 0

Has(marker) == contains(decision_text, marker)

Classified == pc = "classified"

HasGenerate == Has(GENERATE_FINAL_RESPONSE) \/ Has(GENERATE_RESPONSE) \/ Has(GENERATE_ANALYSIS)

NoMarker == ~Has(CALL_TOOL) /\ ~HasGenerate /\ ~Has(ASK_USER) /\ ~Has(NEED_MORE_INFO)

\* the generation marker the prompt of a loop lists
OwnGenerate(m) ==
    IF m = "single" THEN GENERATE_FINAL_RESPONSE
    ELSE IF m = "chat" THEN GENERATE_RESPONSE
    ELSE GENERATE_ANALYSIS

\* C23 as stated: CALL_TOOL wins over every other marker, any GENERATE
\* marker wins over the markers after it, and a text with no marker is
\* unparseable
C23_FirstMatchWins ==
    Classified =>
        /\ Has(CALL_TOOL) => last_decision = "call_tool"
        /\ (~Has(CALL_TOOL) /\ HasGenerate) => last_decision = "generate"
        /\ NoMarker => last_decision = "unparseable"

\* C23: CALL_TOOL wins over every other marker, the generation marker of the
\* loop wins over the markers after it, and a text with no marker is
\* unparseable
C23_FirstMatchWinsOwnMarker ==
    Classified =>
        /\ Has(CALL_TOOL) => last_decision = "call_tool"
        /\ (~Has(CALL_TOOL) /\ Has(OwnGenerate(mode))) => last_decision = "generate"
        /\ NoMarker => last_decision = "unparseable"

\* a chat text with ASK_USER before GENERATE_RESPONSE was classified
C23_Witness ==
    /\ Classified
    /\ mode = "chat"
    /\ decision_text = << <<ASK_USER>>, <<GENERATE_RESPONSE>> >>
    /\ last_decision = "generate"

\* C24 as stated: in every loop GENERATE_ANALYSIS or GENERATE_RESPONSE
\* without CALL_TOOL is a generation decision, and NEED_MORE_INFO without an
\* earlier marker is a need-more-information decision
C24_SameMarkersInEveryLoop ==
    (Classified /\ ~Has(CALL_TOOL)) =>
        /\ (Has(GENERATE_ANALYSIS) \/ Has(GENERATE_RESPONSE)) => last_decision = "generate"
        /\ (Has(NEED_MORE_INFO) /\ ~HasGenerate /\ ~Has(ASK_USER))
               => last_decision = "need_more_info"

\* C24: each loop recognises the markers of its own prompt: its generation
\* marker without CALL_TOOL is a generation decision and no other marker is;
\* NEED_MORE_INFO without the generation marker is a need-more-information
\* decision in the single-shot and rental loops and is not looked for in the
\* chat loop, ASK_USER is looked for in the chat loop only
C24_OwnMarkersInEachLoop ==
    (Classified /\ ~Has(CALL_TOOL)) =>
        /\ last_decision = "generate" <=> Has(OwnGenerate(mode))
        /\ last_decision = "need_more_info"
               <=> (mode # "chat" /\ Has(NEED_MORE_INFO) /\ ~Has(OwnGenerate(mode)))
        /\ last_decision = "ask_user"
               <=> (mode = "chat" /\ Has(ASK_USER) /\ ~Has(OwnGenerate(mode)))

\* the single-shot chain met GENERATE_RESPONSE, which it does not look for
C24_Witness ==
    /\ Classified
    /\ mode = "single"
    /\ decision_text = << <<GENERATE_RESPONSE>> >>
    /\ last_decision = "unparseable"

\* C25: every tools/call request sent and every record of tool_calls has a
\* tool name that is not empty, and a CALL_TOOL decision without a name
\* sends nothing and records nothing
C25_NoToolCallWithoutName ==
    /\ [](/\ \A i \in 1..Len(sent) : sent[i].method = "tools/call" => sent[i].name # <<>>
          /\ \A i \in 1..Len(tool_calls) : tool_calls[i].tool_name # <<>>
          /\ pc = "tool" => tool_info.tool_name # <<>>)
    /\ [][(Decided /\ decision_text \in {NamelessText, EmptyNameText})
             => UNCHANGED <<sent, tool_calls, collected_data>>]_vars

\* a CALL_TOOL decision without a name was passed over in a run that has
\* executed a named call
C25_Witness ==
    /\ last_decision = "call_tool_no_name"
    /\ Len(tool_calls) > 0
    /\ \E i \in 1..Len(sent) : sent[i].method = "tools/call"

\* C26: a generation decision leads to the synthesis and then out of the
\* loop, and once final_response is set nothing of the analysis changes: no
\* decision request, reasoning-engine request, tools/call, tool_calls
\* append or collected_data update follows in the run
C26_ResponseIsTerminal ==
    /\ [][Takes("generate") => pc' = "final"]_vars
    /\ [](final_response # NoResponse => pc \in {"exit", "done"})
    /\ [][final_response # NoResponse
            => UNCHANGED <<final_response, message_type, iteration, tool_calls, collected_data,
                           sent, request_id, consultations, llm_calls, decision_text>>]_vars

\* a run has returned the response of a generation decision taken after a
\* tool call
C26_Witness ==
    /\ pc = "done"
    /\ last_decision = "generate"
    /\ final_response = "llm_text"
    /\ Len(tool_calls) > 0

\* the tools/call requests sent so far
ToolCallsSent == {i \in 1..Len(sent) : sent[i].method = "tools/call"}

\* one record is added at the end of tool_calls, for the call at hand
AppendsOneRecord ==
    /\ Len(tool_calls') = Len(tool_calls) + 1
    /\ SubSeq(tool_calls', 1, Len(tool_calls)) = tool_calls
    /\ tool_calls'[Len(tool_calls')].iteration = iteration
    /\ tool_calls'[Len(tool_calls')].tool_name = tool_info.tool_name

ToolCallInFlight == pc = "tool"
EngineInFlight == llm_status = "calling"

\* C28: within a run a tools/call and a reasoning-engine request are never
\* in flight together, and a request is issued only when no earlier one is
\* still in flight
C28_OneRequestInFlight ==
    /\ [](~(ToolCallInFlight /\ EngineInFlight))
    /\ [][sent' # sent => (~ToolCallInFlight /\ ~EngineInFlight /\ Len(sent') = Len(sent) + 1)]_vars
    /\ [][llm_calls' # llm_calls => ~ToolCallInFlight']_vars
    /\ [](Cardinality(ToolCallsSent) - Len(tool_calls) \in {0, 1})

\* a tools/call is in flight after an earlier call and its decision request
\* have returned
C28_Witness ==
    /\ pc = "tool"
    /\ Len(tool_calls) > 0
    /\ llm_status = "idle"
    /\ Cardinality(ToolCallsSent) = Len(tool_calls) + 1

\* the substrings looked for, in the order of the claim, and their categories
CategoryOrder ==
    << <<"geo", "coordinates">>, <<"direction", "routes">>,
       <<"around_search", "nearby_pois">>, <<"text_search", "search_results">> >>

\* the category of the first substring of the order that the name contains
FirstMatchCategory(name) ==
    LET hits == {i \in 1..Len(CategoryOrder) : name_contains(name, CategoryOrder[i][1])}
    IN IF hits = {} THEN "other_data"
       ELSE CategoryOrder[CHOOSE i \in hits : \A j \in hits : i <= j][2]

Updated == pc = "updated"

\* the categories that hold something
Filled == {c \in Categories : collected_data[c] # <<>>}

QuotaOnLastBackend(k) ==
    /\ llm_status = "calling"
    /\ attempt = k
    /\ current_model_index = Len(models) - 1
    /\ last_attempt' # last_attempt
    /\ last_attempt'.outcome = "quota"

\* the request goes on with attempt k + 1 on the first backend after a wait
\* of the given number of seconds
WaitsAndRetriesOnFirst(k, seconds) ==
    /\ last_attempt' = [index |-> k, backend |-> Len(models) - 1, outcome |-> "quota", wait |-> seconds]
    /\ current_model_index' = 0
    /\ attempt' = k + 1
    /\ llm_status' = "calling"

\* C30: with the defaults (delay 1 s, 3 attempts) a quota error on the last
\* backend at attempt 0 is followed by a wait of 1 s, at attempt 1 by a wait
\* of 2 s, and then by the next attempt on the first backend
C30_BackoffThenFirstBackend ==
    /\ [](retry_delay = 1 /\ max_retries = 3)
    /\ [][QuotaOnLastBackend(0) => WaitsAndRetriesOnFirst(0, 1)]_vars
    /\ [][QuotaOnLastBackend(1) => WaitsAndRetriesOnFirst(1, 2)]_vars

\* the second attempt has met the quota error on the last backend: 2 s of
\* wait, and the third attempt is due on the first backend
C30_Witness ==
    /\ last_attempt = [index |-> 1, backend |-> Len(models) - 1, outcome |-> "quota", wait |-> 2]
    /\ current_model_index = 0
    /\ attempt = 2
    /\ llm_status = "calling"

\* one backend attempt of _call_llm_with_retry ends in this step
AttemptEnds ==
    /\ mode \in {"single", "chat"}
    /\ llm_status = "calling"
    /\ last_attempt' # last_attempt
    /\ last_attempt'.outcome # "none"

\* C31: a call of _call_llm_with_retry makes at most max_retries (3) backend
\* attempts, the attempt after a backend switch included: every failed
\* attempt takes the next of the max_retries loop indices, the call raises
\* once the last index has failed, and it returns only from an attempt that
\* succeeded
C31_AtMostMaxRetriesAttempts ==
    /\ [](max_retries = 3)
    /\ [](mode \in {"single", "chat"}
            => (/\ attempt \in 0..max_retries
                /\ llm_status = "calling" => attempt < max_retries
                /\ llm_status = "raised" => (attempt = max_retries /\ last_attempt.outcome \in {"quota", "other"})
                /\ llm_status = "ok" => last_attempt.outcome = "ok"))
    /\ [][AttemptEnds
            => (/\ last_attempt'.index = attempt
                /\ last_attempt'.outcome = "ok" => (llm_status' = "ok" /\ attempt' = attempt)
                /\ last_attempt'.outcome # "ok"
                      => (/\ attempt' = attempt + 1
                          /\ llm_status' = IF attempt = max_retries - 1 THEN "raised" ELSE "calling"))]_vars

\* the third attempt of a call has failed right after a backend switch and
\* the call has raised
C31_Witness ==
    /\ llm_status = "raised"
    /\ attempt = max_retries
    /\ last_attempt = [index |-> 2, backend |-> 0, outcome |-> "quota", wait |-> 0]
    /\ current_model_index = 1

\* C32: an attempt that fails with an error that is not of the quota class
\* leaves the backend index as it was, waits retry_delay * 2^attempt unless
\* it was the last attempt, and the next attempt goes to the same backend
C32_OtherErrorKeepsBackend ==
    /\ [][(AttemptEnds /\ last_attempt'.outcome = "other")
            => (/\ current_model_index' = current_model_index
                /\ last_attempt'.backend = current_model_index
                /\ last_attempt'.wait = (IF attempt = 0 THEN 1 ELSE IF attempt = 1 THEN 2 ELSE 0))]_vars
    /\ [][(AttemptEnds /\ last_attempt.outcome = "other")
            => last_attempt'.backend = last_attempt.backend]_vars

\* the second attempt of a decision request has failed on the second
\* backend with an error that is not of the quota class: 2 s of wait, and
\* the third attempt is due on the same backend
C32_Witness ==
    /\ llm_status = "calling"
    /\ last_attempt = [index |-> 1, backend |-> 1, outcome |-> "other", wait |-> 2]
    /\ attempt = 2
    /\ current_model_index = 1
    /\ pc = "decide"

\* a call of _call_llm_with_retry starts in this step
CallStarts == mode \in {"single", "chat"} /\ llm_calls' = llm_calls + 1

\* C33: the backend index is kept between the calls of a run: a call starts
\* on the backend the call before it ended on, and the index changes only
\* by a switch to the next backend after a quota error or by the reset to
\* the first backend after the backoff wait on the last one
C33_BackendIndexIsSticky ==
    /\ [][CallStarts => current_model_index' = current_model_index]_vars
    /\ [][current_model_index' # current_model_index
            => (/\ AttemptEnds
                /\ last_attempt'.outcome = "quota"
                /\ \/ current_model_index' = current_model_index + 1
                   \/ /\ current_model_index = Len(models) - 1
                      /\ current_model_index' = 0
                      /\ last_attempt'.wait > 0)]_vars
    /\ [](current_model_index \in 0..(Len(models) - 1))

\* a later call of the run starts on the second backend
C33_Witness ==
    /\ llm_calls >= 2
    /\ llm_status = "calling"
    /\ attempt = 0
    /\ last_attempt = NoAttempt
    /\ current_model_index = 1
    /\ pc = "decide"

\* C34: the planning consultation does not gate the run: however the plan
\* request of the rental run or the intent analysis of a universal run ends,
\* the run goes on towards its loop
C34_PlanningDoesNotGate ==
    /\ [][(pc = "plan" /\ pc' # pc) => pc' = "loop"]_vars
    /\ [][(pc = "intent" /\ pc' # pc) => pc' \notin {"raised", "exit", "done"}]_vars

\* the messages a session held before the step are its first messages after it
KeepsMessagesOf(id) ==
    /\ id \in DOMAIN conversations'
    /\ Len(conversations'[id]) >= Len(conversations[id])
    /\ SubSeq(conversations'[id], 1, Len(conversations[id])) = conversations[id]

\* the sessions that gained messages in the step, new sessions included
Grown ==
    {id \in DOMAIN conversations' :
        IF id \in DOMAIN conversations
        THEN Len(conversations'[id]) > Len(conversations[id])
        ELSE Len(conversations'[id]) > 0}

\* C35: every operation on the store keeps the messages of every session,
\* in order; add_message adds the one message at the end of one session and
\* nothing else, create_conversation adds an empty session, and
\* get_conversation_context leaves the store as it is
C35_StoreKeepsMessages ==
    /\ [][\A id \in DOMAIN conversations : KeepsMessagesOf(id)]_vars
    /\ [][op_result'.op = "add"
            => (/\ Grown = {op_result'.returned}
                /\ Len(conversations'[op_result'.returned])
                      = (IF op_result'.returned \in DOMAIN conversations
                         THEN Len(conversations[op_result'.returned]) ELSE 0) + 1
                /\ conversations'[op_result'.returned][Len(conversations'[op_result'.returned])]
                      = op_result'.message)]_vars
    /\ [][op_result'.op = "create" => Grown = {}]_vars
    /\ [][op_result'.op = "context" => UNCHANGED <<conversations, uuids>>]_vars

\* a message was added to a session that held two or more messages
C35_Witness ==
    /\ pc = "stored"
    /\ op_result.op = "add"
    /\ op_result.returned = op_result.id
    /\ Len(conversations[op_result.returned]) >= 3
    /\ conversations[op_result.returned][1] # conversations[op_result.returned][Len(conversations[op_result.returned])]

\* every turn so far was a call of process_chat_message on the one analyzer
OneAnalyzer ==
    /\ \A i \in 1..Len(served) : served[i].via = "direct"
    /\ \A p \in Procs : turn[p].via # "service"

\* the turns of a session: those that have returned, those at their await
ReturnedOn(cid) == {i \in 1..Len(served) : served[i].conversation_id = cid}
AwaitingOn(cid) == {p \in Procs : turn[p].pc = "awaiting" /\ turn[p].conversation_id = cid}

\* the messages with the given role among the first n of a session
WithRole(msgs, role, n) == {k \in 1..n : msgs[k].role = role}

\* the k-th assistant message of a session is at position n
IsKthAssistant(msgs, k, n) ==
    msgs[n].role = "assistant" /\ Cardinality(WithRole(msgs, "assistant", n)) = k

\* the turns that returned on a session, in the order of their return
RECURSIVE ReturnOrder(_, _)
ReturnOrder(cid, n) ==
    IF n = 0 THEN <<>>
    ELSE IF served[n].conversation_id = cid
    THEN Append(ReturnOrder(cid, n - 1), n)
    ELSE ReturnOrder(cid, n - 1)

\* C36: on one analyzer, the session of a turn holds one user message for
\* each of its turns begun and one assistant message for each of its turns
\* returned, and nothing else, however the turns interleave at their
\* awaits: no message is lost or overwritten, the replies are there in the
\* order the turns returned, and every assistant message stands after the
\* user message of its turn
C36_InterleavedTurnsKeepMessages ==
    OneAnalyzer =>
        \A cid \in DOMAIN conversations :
            (ReturnedOn(cid) \cup AwaitingOn(cid) # {}) =>
                LET msgs == conversations[cid]
                    order == ReturnOrder(cid, Len(served))
                IN /\ Len(msgs) = 2 * Cardinality(ReturnedOn(cid)) + Cardinality(AwaitingOn(cid))
                   /\ Cardinality(WithRole(msgs, "assistant", Len(msgs))) = Cardinality(ReturnedOn(cid))
                   /\ \A n \in 1..Len(msgs) :
                         /\ msgs[n].role \in {"user", "assistant"}
                         /\ msgs[n].role = "user" => msgs[n].content = TurnMessage
                         /\ Cardinality(WithRole(msgs, "user", n))
                               >= Cardinality(WithRole(msgs, "assistant", n))
                         /\ \A k \in 1..Len(order) :
                               IsKthAssistant(msgs, k, n)
                                  => msgs[n].content = served[order[k]].response

\* two turns of one session were at their awaits together and have both
\* returned: after the two messages of the turn that opened the session it
\* holds the two user messages and then the two replies
C36_Witness ==
    /\ OneAnalyzer
    /\ Len(served) = 3
    /\ \A p \in Procs : turn[p].pc = "idle"
    /\ served[1].passed_id = NoId
    /\ served[2].passed_id = served[1].conversation_id
    /\ served[3].passed_id = served[1].conversation_id
    /\ served[2].response # served[3].response
    /\ LET msgs == conversations[served[1].conversation_id]
       IN /\ Len(msgs) = 6
          /\ msgs[3].role = "user"
          /\ msgs[4].role = "user"
          /\ msgs[5] = [role |-> "assistant", content |-> served[2].response]
          /\ msgs[6] = [role |-> "assistant", content |-> served[3].response]

\* C37: when a turn returns, the store holds a session under the
\* conversation_id it returns, and that session ends with the user message
\* of the turn followed by its assistant response
C37_ReturnedIdHoldsTheTurn ==
    [][Len(served') > Len(served)
         => LET e == served'[Len(served')]
            IN /\ e.conversation_id \in DOMAIN conversations'
               /\ Len(conversations'[e.conversation_id]) >= 2
               /\ LET msgs == conversations'[e.conversation_id]
                  IN /\ msgs[Len(msgs)] = [role |-> "assistant", content |-> e.response]
                     /\ msgs[Len(msgs) - 1] = [role |-> "user", content |-> e.message]]_vars

\* the number of results stored, over all categories
StoredResults ==
    Len(collected_data["coordinates"]) + Len(collected_data["routes"])
    + Len(collected_data["nearby_pois"]) + Len(collected_data["search_results"])
    + Len(collected_data["other_data"]) + Len(collected_data["work_locations"])
    + Len(collected_data["poi_data"])

SuccessfulRecords == {i \in 1..Len(tool_calls) : tool_calls[i].success}

\* C38: at every point of a single-shot or chat run there are as many
\* results stored in collected_data as records with success = true in
\* tool_calls; a result with an error key is on record with success = false
\* and is not stored
C38_StoredEqualsSuccessful ==
    /\ [](mode \in {"single", "chat"}
            => (/\ StoredResults = Cardinality(SuccessfulRecords)
                /\ \A i \in 1..Len(tool_calls) :
                      tool_calls[i].success = ~tool_calls[i].result.has_error))
    /\ [][(mode \in {"single", "chat"} /\ Len(tool_calls') > Len(tool_calls)
             /\ tool_calls'[Len(tool_calls')].result.has_error)
            => UNCHANGED collected_data]_vars

\* a run holds the record of a failed call and, after it, the record of a
\* call whose result was stored
C38_Witness ==
    /\ mode \in {"single", "chat"}
    /\ Len(tool_calls) >= 2
    /\ ~tool_calls[1].success
    /\ tool_calls[2].success
    /\ StoredResults = Len(tool_calls) - 1

\* the synthesis of a universal run ends in this step
SynthesisEnds == mode \in {"single", "chat"} /\ pc = "final" /\ pc' # "final"

\* C39: _generate_final_response returns a text in every case: the text of
\* the reasoning engine, or the static fallback when the request raised
\* after its last attempt; so a universal run that took a generation
\* decision ends with final_response set
C39_SynthesisAlwaysReturnsText ==
    /\ [][SynthesisEnds
            => (/\ llm_status \in {"ok", "raised"}
                /\ pc' = "exit"
                /\ final_response' = (IF llm_status = "raised" THEN "fallback_text" ELSE "llm_text"))]_vars
    /\ []((mode \in {"single", "chat"} /\ last_decision = "generate" /\ pc \in {"exit", "done"})
            => final_response \in {"llm_text", "fallback_text"})
    /\ []((mode \in {"single", "chat"} /\ last_decision = "generate") => pc # "raised")

\* a single-shot run took a generation decision, the synthesis request
\* raised, and the run has returned the fallback text
C39_Witness ==
    /\ mode = "single"
    /\ pc = "done"
    /\ last_decision = "generate"
    /\ final_response = "fallback_text"

\* the run has returned or raised
Terminated == pc \in {"done", "raised"}

\* C40: a universal run terminates when every external call returns or
\* raises; it makes at most 15 (single-shot) or 10 (chat) decision
\* consultations, one per round, each of at most max_retries (3) backend
\* attempts, and sends at most one tools/call per round
C40_UniversalRunTerminates ==
    /\ [](mode \in {"single", "chat"}
            => (/\ consultations <= (IF mode = "single" THEN 15 ELSE 10)
                /\ consultations = iteration
                /\ attempt <= 3
                /\ Cardinality(ToolCallsSent) <= iteration
                /\ \A i \in 1..Len(tool_calls) : \A j \in (i + 1)..Len(tool_calls) :
                      tool_calls[i].iteration < tool_calls[j].iteration))
    /\ [][(mode \in {"single", "chat"} /\ Cardinality(ToolCallsSent') > Cardinality(ToolCallsSent))
            => (pc = "decide" /\ Cardinality(ToolCallsSent') = Cardinality(ToolCallsSent) + 1)]_vars
    /\ (mode \in {"single", "chat"} ~> Terminated)

\* a single-shot run has returned after its 15 rounds
C40_Witness ==
    /\ mode = "single"
    /\ pc = "done"
    /\ consultations = 15
    /\ Cardinality(ToolCallsSent) >= 14

\* the steps of CallToolBranch are the steps of the two CALL_TOOL actions
CallToolBranchIsTheBranch ==
    [][CallToolBranch <=> (DecisionCallTool \/ DecisionCallToolSkipped)]_vars

====
